---------------------------- MODULE Spec2Model ----------------------------
(***************************************************************************)
(* A model of the asteroid service of lida-b3ayn (services/asteroidApi):   *)
(* the population density estimator, the orbital mechanics solver, the     *)
(* impact effects calculator and the catalog adapter.                      *)
(*                                                                         *)
(* JavaScript numbers are IEEE-754 doubles.  They are modelled as decimal  *)
(* floating point numbers with four significant digits, rounded to        *)
(* nearest, with NaN, +Infinity and -Infinity, overflow to the infinities  *)
(* above 1.797e308 and underflow to 0 below 1e-324.  A number is a record  *)
(*   [k |-> "fin", m |-> mantissa, e |-> exponent]   (value m * 10^e,      *)
(*        m = 0 and e = 0, or 1000 <= |m| <= 9999),                        *)
(*   [k |-> "nan", ...]  or  [k |-> "inf", m |-> 1 or -1, ...].            *)
(* The sign of zero is not modelled.                                       *)
(*                                                                         *)
(* An intermediate value that is used more than once is handed on as the   *)
(* parameter of the operator that continues the computation.               *)
(***************************************************************************)
EXTENDS Integers, Sequences, FiniteSets, TLC

-----------------------------------------------------------------------------
(* Numbers *)

NaN == [k |-> "nan", m |-> 0, e |-> 0]
PosInf == [k |-> "inf", m |-> 1, e |-> 0]
NegInf == [k |-> "inf", m |-> -1, e |-> 0]
Zero == [k |-> "fin", m |-> 0, e |-> 0]

\* the number m * 10^e for a mantissa already in 1000..9999 or -9999..-1000
Fin(m, e) == [k |-> "fin", m |-> m, e |-> e]
Inf(s) == [k |-> "inf", m |-> s, e |-> 0]

IAbs(i) == IF i < 0 THEN -i ELSE i
ISign(i) == IF i < 0 THEN -1 ELSE IF i > 0 THEN 1 ELSE 0
IMin(a, b) == IF a < b THEN a ELSE b
IMax(a, b) == IF a < b THEN b ELSE a

Pow10(n) ==
  <<1, 10, 100, 1000, 10000, 100000, 1000000, 10000000, 100000000, 1000000000>>[n + 1]

\* the number of decimal digits of a > 0
NumDigits(a) ==
  IF a < 10 THEN 1 ELSE IF a < 100 THEN 2 ELSE IF a < 1000 THEN 3
  ELSE IF a < 10000 THEN 4 ELSE IF a < 100000 THEN 5
  ELSE IF a < 1000000 THEN 6 ELSE IF a < 10000000 THEN 7
  ELSE IF a < 100000000 THEN 8 ELSE IF a < 1000000000 THEN 9 ELSE 10

\* a / b rounded to the nearest integer, halves away from zero (b > 0)
RoundDiv(a, b) ==
  IF a >= 0 THEN (a + b \div 2) \div b ELSE -((b \div 2 - a) \div b)

\* sign s, mantissa r in 1000..9999, exponent x: overflow and underflow
Pack(s, r, x) ==
  IF x > 305 \/ (x = 305 /\ r > 1797) THEN Inf(s)
  ELSE IF x < -327 THEN Zero
  ELSE Fin(s * r, x)

\* a mantissa that rounded up to 10000 becomes 1000 with the next exponent
Carry(s, r, x) ==
  Pack(s, IF r >= 10000 THEN 1000 ELSE r, IF r >= 10000 THEN x + 1 ELSE x)

\* a > 0 of d digits brought to four digits
Scale(s, a, d, e) ==
  Carry(s, IF d > 4 THEN RoundDiv(a, Pow10(d - 4)) ELSE a * Pow10(4 - d), e + d - 4)

\* The double nearest to m * 10^e.
Norm(m, e) == IF m = 0 THEN Zero ELSE Scale(ISign(m), IAbs(m), NumDigits(IAbs(m)), e)

\* a decimal literal of the source, m * 10^e
D(m, e) == Norm(m, e)

IsNaN(x) == x.k = "nan"
IsFinite(x) == x.k = "fin"
IsInf(x) == x.k = "inf"
SignOf(x) == ISign(x.m)

Neg(x) == [x EXCEPT !.m = -x.m]
NAbs(x) == [x EXCEPT !.m = IAbs(x.m)]

\* hi + lo for finite non-zero numbers, hi.e >= lo.e
AddAligned(hi, lo) ==
  IF hi.e - lo.e > 5 THEN hi
  ELSE Norm(hi.m * Pow10(hi.e - lo.e) + lo.m, lo.e)

Add(x, y) ==
  IF IsNaN(x) \/ IsNaN(y) THEN NaN
  ELSE IF IsInf(x) THEN (IF IsInf(y) /\ y.m # x.m THEN NaN ELSE x)
  ELSE IF IsInf(y) THEN y
  ELSE IF x.m = 0 THEN y
  ELSE IF y.m = 0 THEN x
  ELSE AddAligned(IF x.e >= y.e THEN x ELSE y, IF x.e >= y.e THEN y ELSE x)

Sub(x, y) == Add(x, Neg(y))

Mul(x, y) ==
  IF IsNaN(x) \/ IsNaN(y) THEN NaN
  ELSE IF IsInf(x) \/ IsInf(y)
    THEN (IF x.m = 0 \/ y.m = 0 THEN NaN ELSE Inf(ISign(x.m) * ISign(y.m)))
  ELSE Norm(x.m * y.m, x.e + y.e)

Div(x, y) ==
  IF IsNaN(x) \/ IsNaN(y) THEN NaN
  ELSE IF IsInf(x)
    THEN (IF IsInf(y) THEN NaN ELSE Inf(x.m * (IF y.m < 0 THEN -1 ELSE 1)))
  ELSE IF IsInf(y) THEN Zero
  ELSE IF y.m = 0 THEN (IF x.m = 0 THEN NaN ELSE Inf(ISign(x.m)))
  ELSE Norm(ISign(y.m) * RoundDiv(x.m * 100000, IAbs(y.m)), x.e - y.e - 5)

\* x < y  (false when either is NaN)
Lt(x, y) ==
  IF IsNaN(x) \/ IsNaN(y) THEN FALSE
  ELSE IF IsInf(x) THEN x.m < 0 /\ ~(IsInf(y) /\ y.m < 0)
  ELSE IF IsInf(y) THEN y.m > 0
  ELSE IF ISign(x.m) # ISign(y.m) THEN ISign(x.m) < ISign(y.m)
  ELSE IF x.m = 0 THEN FALSE
  ELSE IF x.m > 0 THEN x.e < y.e \/ (x.e = y.e /\ x.m < y.m)
  ELSE x.e > y.e \/ (x.e = y.e /\ x.m < y.m)

Gt(x, y) == Lt(y, x)
\* x === y
NumEq(x, y) == ~IsNaN(x) /\ ~IsNaN(y) /\ x = y
Le(x, y) == Lt(x, y) \/ NumEq(x, y)
Ge(x, y) == Le(y, x)

\* Math.max, Math.min
MathMax(x, y) == IF IsNaN(x) \/ IsNaN(y) THEN NaN ELSE IF Lt(x, y) THEN y ELSE x
MathMin(x, y) == IF IsNaN(x) \/ IsNaN(y) THEN NaN ELSE IF Lt(y, x) THEN y ELSE x

RECURSIVE ISqrtIter(_, _)
ISqrtIter(n, g) ==
  IF (g + n \div g) \div 2 >= g THEN g ELSE ISqrtIter(n, (g + n \div g) \div 2)

\* the integer square root of n >= 0
ISqrt(n) == IF n = 0 THEN 0 ELSE ISqrtIter(n, 46340)

\* Math.sqrt
MathSqrt(x) ==
  IF IsNaN(x) THEN NaN
  ELSE IF IsInf(x) THEN (IF x.m > 0 THEN PosInf ELSE NaN)
  ELSE IF x.m < 0 THEN NaN
  ELSE IF x.m = 0 THEN Zero
  ELSE IF x.e % 2 = 1 THEN Norm(ISqrt(x.m * 100000), (x.e - 5) \div 2)
  ELSE Norm(ISqrt(x.m * 10000), (x.e - 4) \div 2)

-----------------------------------------------------------------------------
(* Math functions.  Angles are reduced and series are summed in fixed point  *)
(* with four decimals (an integer u stands for u / 10000).                   *)

\* Math.PI
MathPI == Fin(3142, -3)
HalfPI == Fin(1571, -3)
One == Fin(1000, -3)
Two == Fin(2000, -3)

\* a finite x with |x| < 100000 in units of 1/10000
ToFx(x) ==
  IF x.e >= -4 THEN x.m * Pow10(IMin(x.e, 1) + 4)
  ELSE IF x.e < -9 THEN 0
  ELSE RoundDiv(x.m, Pow10(-4 - x.e))

\* an angle reduced to [0, 2 pi), 2 pi = 62832 / 10000
ReduceAngle(x) == ToFx(x) % 62832

\* sine of u / 10000, |u| <= 15708, by its Taylor series; u2 is u * u
SinTerms(u, u2) ==
  RoundDiv(u * (10000 - RoundDiv(u2 * (10000 - RoundDiv(u2 * (10000 -
    RoundDiv(u2 * (10000 - RoundDiv(u2, 72)), 420000)), 200000)), 60000)), 10000)

SinSeries(u) == SinTerms(u, RoundDiv(u * u, 10000))

\* cosine of u / 10000, |u| <= 15708, by its Taylor series; u2 is u * u
CosTerms(u2) ==
  10000 - RoundDiv(u2 * (10000 - RoundDiv(u2 * (10000 -
    RoundDiv(u2 * (10000 - RoundDiv(u2, 56)), 300000)), 120000)), 20000)

CosSeries(u) == CosTerms(RoundDiv(u * u, 10000))

\* the sine of a reduced angle r
SinReduced(r) ==
  SinSeries(IF r <= 15708 THEN r ELSE IF r <= 47124 THEN 31416 - r ELSE r - 62832)

\* the cosine of a reduced angle r
CosReduced(r) ==
  (IF r > 15708 /\ r <= 47124 THEN -1 ELSE 1)
    * CosSeries(IF r <= 15708 THEN r ELSE IF r <= 47124 THEN r - 31416 ELSE r - 62832)

\* Math.sin
MathSin(x) ==
  IF ~IsFinite(x) THEN NaN
  ELSE IF x.e <= -6 THEN x
  ELSE Norm(SinReduced(ReduceAngle(x)), -4)

\* Math.cos
MathCos(x) ==
  IF ~IsFinite(x) THEN NaN
  ELSE IF x.e <= -6 THEN One
  ELSE Norm(CosReduced(ReduceAngle(x)), -4)

\* arctangent of w / 10000, |w| <= 4143, by its Taylor series; w2 is w * w
AtanTerms(w, w2) ==
  w - RoundDiv(w * RoundDiv(w2 * (3333 - RoundDiv(w2 * (2000 -
        RoundDiv(w2 * (1429 - RoundDiv(w2, 9)), 10000)), 10000)), 10000), 10000)

AtanSeries(w) == AtanTerms(w, RoundDiv(w * w, 10000))

\* arctangent of t / 10000, 0 <= t <= 10000: atan t = pi/4 + atan((t-1)/(t+1))
AtanUnit(t) ==
  IF t > 4142 THEN 7854 + AtanSeries(RoundDiv((t - 10000) * 10000, t + 10000))
  ELSE AtanSeries(t)

\* the arctangent of a ratio 0 <= z <= 1, and its complement
AtanOfRatio(z) == IF z.e <= -6 THEN z ELSE Norm(AtanUnit(ToFx(z)), -4)
AtanOfInverse(z) ==
  IF z.e <= -6 THEN Sub(Fin(1571, -3), z) ELSE Norm(15708 - AtanUnit(ToFx(z)), -4)

\* the angle in [0, pi/2] of the point (ax, ay), ax >= 0 and ay > 0 finite
AtanFirstQuadrant(ay, ax) ==
  IF ax.m = 0 THEN Fin(1571, -3)
  ELSE IF Le(ay, ax) THEN AtanOfRatio(Div(ay, ax))
  ELSE AtanOfInverse(Div(ax, ay))

\* the first-quadrant angle a moved to the quadrant of (x, y)
AtanQuadrant(y, x, a) ==
  IF x.m >= 0 THEN (IF y.m > 0 THEN a ELSE Neg(a))
  ELSE (IF y.m > 0 THEN Sub(Fin(3142, -3), a) ELSE Neg(Sub(Fin(3142, -3), a)))

\* Math.atan2(y, x)
MathAtan2(y, x) ==
  IF IsNaN(y) \/ IsNaN(x) THEN NaN
  ELSE IF IsInf(y)
    THEN Fin(y.m * (IF ~IsInf(x) THEN 1571 ELSE IF x.m > 0 THEN 7854 ELSE 2356),
             IF ~IsInf(x) THEN -3 ELSE IF x.m > 0 THEN -4 ELSE -3)
  ELSE IF IsInf(x)
    THEN (IF x.m > 0 THEN Zero ELSE IF y.m < 0 THEN Fin(-3142, -3) ELSE Fin(3142, -3))
  ELSE IF y.m = 0 THEN (IF x.m >= 0 THEN Zero ELSE Fin(3142, -3))
  ELSE AtanQuadrant(y, x, AtanFirstQuadrant(NAbs(y), NAbs(x)))

\* Math.hypot of three arguments
MathHypot3(a, b, c) ==
  IF IsInf(a) \/ IsInf(b) \/ IsInf(c) THEN PosInf
  ELSE IF IsNaN(a) \/ IsNaN(b) \/ IsNaN(c) THEN NaN
  ELSE MathSqrt(Add(Add(Mul(a, a), Mul(b, b)), Mul(c, c)))

\* Math.hypot of two arguments
MathHypot2(a, b) ==
  IF IsInf(a) \/ IsInf(b) THEN PosInf
  ELSE IF IsNaN(a) \/ IsNaN(b) THEN NaN
  ELSE MathSqrt(Add(Mul(a, a), Mul(b, b)))

\* Math.floor
MathFloor(x) ==
  IF ~IsFinite(x) \/ x.e >= 0 THEN x
  ELSE IF x.e <= -4 THEN (IF x.m < 0 THEN Fin(-1000, -3) ELSE Zero)
  ELSE Norm(IF x.m >= 0 THEN x.m \div Pow10(-x.e)
            ELSE -((Pow10(-x.e) - 1 - x.m) \div Pow10(-x.e)), 0)

\* Math.round: the nearest integer, halves towards +Infinity
MathRound(x) ==
  IF ~IsFinite(x) \/ x.e >= 0 THEN x
  ELSE MathFloor(Add(x, Fin(5000, -4)))

\* e^(u/10000), 0 <= u <= 5757, by its Taylor series
ExpSeries(u) ==
  10000 + RoundDiv(u * (10000 + RoundDiv(u * (10000 + RoundDiv(u * (10000 +
    RoundDiv(u * (10000 + RoundDiv(u * (10000 + RoundDiv(u, 6)), 50000)), 40000)),
      30000)), 20000)), 10000)

\* v * v, and v^4 * 10^kk
Square(v) == Mul(v, v)
ShiftExponent(v, kk) == Norm(v.m, v.e + kk)

\* 10^(t/10000) = 10^kk * (e^(r/4))^4 with t/10000 = kk + f, r = f ln 10
ExpParts(t, kk) ==
  ShiftExponent(
    Square(Square(Norm(ExpSeries(RoundDiv(RoundDiv((t - kk * 10000) * 23026, 10000), 4)), -4))),
    kk)

ExpFx(t) == ExpParts(t, IF t >= 0 THEN t \div 10000 ELSE -((9999 - t) \div 10000))

\* e^x from y = x log10(e)
ExpScaled(y) ==
  IF IsNaN(y) THEN NaN
  ELSE IF IsInf(y) THEN (IF y.m > 0 THEN PosInf ELSE Zero)
  ELSE IF y.m = 0 THEN Fin(1000, -3)
  ELSE IF y.e >= 0 THEN (IF y.m > 0 THEN PosInf ELSE Zero)
  ELSE ExpFx(ToFx(y))

\* Math.exp
MathExp(x) == ExpScaled(Mul(x, Fin(4343, -4)))

\* 2 atanh(z / 10000) for 0 <= z <= 3334, by its series; z2 is z * z
LnTerms(z, z2) ==
  RoundDiv(2 * z * (10000 + RoundDiv(z2 * (3333 + RoundDiv(z2 * (2000 +
    RoundDiv(z2 * (1429 + RoundDiv(z2, 9)), 10000)), 10000)), 10000)), 10000)

LnSeries(z) == LnTerms(z, RoundDiv(z * z, 10000))

\* ln(w / 10000) for 10000 <= w < 20000
LnReduced(w) == LnSeries(RoundDiv((w - 10000) * 10000, w + 10000))

\* ln(v / 1000) in units of 1/10000, 1000 <= v <= 9999: halve v down to [1, 2)
LnMantissa(v) ==
  IF v >= 8000 THEN 20794 + LnReduced(RoundDiv(v * 10, 8))
  ELSE IF v >= 4000 THEN 13863 + LnReduced(RoundDiv(v * 10, 4))
  ELSE IF v >= 2000 THEN 6931 + LnReduced(v * 5)
  ELSE LnReduced(v * 10)

\* Math.log (natural logarithm) of x > 0 finite, in units of 1/10000
LnFx(x) == LnMantissa(x.m) + (x.e + 3) * 23026

\* Math.log10
MathLog10(x) ==
  IF IsNaN(x) THEN NaN
  ELSE IF IsInf(x) THEN (IF x.m > 0 THEN PosInf ELSE NaN)
  ELSE IF x.m < 0 THEN NaN
  ELSE IF x.m = 0 THEN NegInf
  ELSE Add(Norm(x.e + 3, 0), Norm(RoundDiv(LnMantissa(x.m) * 4343, 10000), -4))

\* Math.pow(x, y) and x ** y for a finite exponent y
MathPow(x, y) ==
  IF y.m = 0 THEN Fin(1000, -3)
  ELSE IF IsNaN(x) THEN NaN
  ELSE IF y = Fin(2000, -3) THEN Mul(x, x)
  ELSE IF y = Fin(3000, -3) THEN Mul(Mul(x, x), x)
  ELSE IF IsInf(x) THEN (IF x.m < 0 THEN NaN ELSE IF y.m > 0 THEN PosInf ELSE Zero)
  ELSE IF x.m < 0 THEN NaN
  ELSE IF x.m = 0 THEN (IF y.m > 0 THEN Zero ELSE PosInf)
  ELSE ExpScaled(Mul(Mul(y, Norm(LnFx(x), -4)), Fin(4343, -4)))

\* Number.isFinite
NumberIsFinite(x) == IsFinite(x)


-----------------------------------------------------------------------------
(* Strings and conversions.  A string read by parseFloat is a sequence of    *)
(* one-character strings; a JavaScript value is a record tagged by its type. *)

Undefined == [t |-> "undefined"]
Null == [t |-> "null"]
Str(chars) == [t |-> "string", s |-> chars]
Num(x) == [t |-> "number", n |-> x]

DigitChars == {"0", "1", "2", "3", "4", "5", "6", "7", "8", "9"}
DigitOf(c) ==
  CASE c = "0" -> 0 [] c = "1" -> 1 [] c = "2" -> 2 [] c = "3" -> 3 [] c = "4" -> 4
    [] c = "5" -> 5 [] c = "6" -> 6 [] c = "7" -> 7 [] c = "8" -> 8 [] OTHER -> 9

\* ToString of a value handed to parseFloat
ToChars(v) ==
  IF v.t = "string" THEN v.s
  ELSE <<"u", "n", "d", "e", "f", "i", "n", "e", "d">>

RECURSIVE SkipWhite(_, _)
SkipWhite(s, i) ==
  IF i <= Len(s) /\ s[i] \in {" ", "\t", "\n"} THEN SkipWhite(s, i + 1) ELSE i

\* the index after the run of digits of s that starts at i
RECURSIVE DigitsEnd(_, _)
DigitsEnd(s, i) ==
  IF i <= Len(s) /\ s[i] \in DigitChars THEN DigitsEnd(s, i + 1) ELSE i

\* the digits s[i..j-1] appended to <<acc, dropped>>: acc keeps nine digits,
\* dropped counts the digits left out after them
RECURSIVE DigitsValue(_, _, _, _)
DigitsValue(s, i, j, st) ==
  IF i >= j THEN st
  ELSE DigitsValue(s, i + 1, j,
         IF st[1] >= 100000000 THEN <<st[1], st[2] + 1>>
         ELSE <<st[1] * 10 + DigitOf(s[i]), st[2]>>)

HasPrefix(s, i, w) ==
  /\ i + Len(w) - 1 <= Len(s)
  /\ \A n \in 1..Len(w) : s[i + n - 1] = w[n]

HasCharIn(s, i, set) == i <= Len(s) /\ s[i] \in set

\* the exponent digits that start at e1, with sign sg; 0 when there are none
ExponentValue(s, e1, sg) ==
  sg * IMin(DigitsValue(s, e1, DigitsEnd(s, e1), <<0, 0>>)[1], 10000)

\* the exponent part that may start at i3
ExponentAt(s, i3) ==
  IF ~HasCharIn(s, i3, {"e", "E"}) THEN 0
  ELSE IF HasCharIn(s, i3 + 1, {"-"}) THEN ExponentValue(s, i3 + 2, -1)
  ELSE IF HasCharIn(s, i3 + 1, {"+"}) THEN ExponentValue(s, i3 + 2, 1)
  ELSE ExponentValue(s, i3 + 1, 1)

\* the number of the digits read: intPart and all are <<digits kept, dropped>>
ParsedValue(sg, expo, nFrac, intPart, all) ==
  Norm(sg * all[1],
       IMax(IMin(intPart[2] - (nFrac - (all[2] - intPart[2])) + expo, 400), -400))

\* integer digits s[i1..i2-1], fraction digits s[i2+1..i3-1] when i3 > i2
ParseFraction(s, sg, i2, i3, intPart) ==
  ParsedValue(sg, ExponentAt(s, i3), IF i3 > i2 THEN i3 - (i2 + 1) ELSE 0, intPart,
              IF i3 > i2 THEN DigitsValue(s, i2 + 1, i3, intPart) ELSE intPart)

ParseDigits(s, sg, i1, i2, i3) ==
  IF (i2 - i1) + (IF i3 > i2 THEN i3 - (i2 + 1) ELSE 0) = 0 THEN NaN
  ELSE ParseFraction(s, sg, i2, i3, DigitsValue(s, i1, i2, <<0, 0>>))

ParseInteger(s, sg, i1, i2) ==
  ParseDigits(s, sg, i1, i2, IF HasCharIn(s, i2, {"."}) THEN DigitsEnd(s, i2 + 1) ELSE i2)

ParseUnsigned(s, sg, i1) ==
  IF HasPrefix(s, i1, <<"I", "n", "f", "i", "n", "i", "t", "y">>) THEN Inf(sg)
  ELSE ParseInteger(s, sg, i1, DigitsEnd(s, i1))

ParseSigned(s, i0) ==
  IF HasCharIn(s, i0, {"-"}) THEN ParseUnsigned(s, -1, i0 + 1)
  ELSE IF HasCharIn(s, i0, {"+"}) THEN ParseUnsigned(s, 1, i0 + 1)
  ELSE ParseUnsigned(s, 1, i0)

\* parseFloat of a string: the longest prefix that is a decimal literal
ParseFloatChars(s) == ParseSigned(s, SkipWhite(s, 1))

\* parseFloat
ParseFloat(v) == ParseFloatChars(ToChars(v))

RECURSIVE Zeros(_)
Zeros(n) == IF n <= 0 THEN "" ELSE "0" \o Zeros(n - 1)

\* the decimal digits of n >= 0 with the point set d > 0 places from the right
PointDigits(q, r, d) ==
  ToString(q) \o "." \o Zeros(d - NumDigits(IMax(r, 1))) \o ToString(r)

PointString(n, d) ==
  IF d = 0 THEN ToString(n) ELSE PointDigits(n \div Pow10(d), n % Pow10(d), d)

\* the three decimals of a mantissa, r in 1..999, without trailing zeros
FractionString(r) ==
  IF r % 100 = 0 THEN ToString(r \div 100)
  ELSE (IF r < 100 THEN "0" ELSE "") \o
       (IF r % 10 = 0 THEN ToString(r \div 10)
        ELSE (IF r < 10 THEN "0" ELSE "") \o ToString(r))

\* the digits of a mantissa a in 1000..9999 as d.ddd without trailing zeros
MantissaString(a) ==
  ToString(a \div 1000) \o
    (IF a % 1000 = 0 THEN "" ELSE "." \o FractionString(a % 1000))

\* toFixed of a > 0 with exponent e, d decimals
FixedDigits(a, e, d) ==
  IF e >= 18 THEN MantissaString(a) \o "e+" \o ToString(e + 3)
  ELSE IF e >= 0 THEN ToString(a) \o Zeros(e) \o (IF d = 0 THEN "" ELSE "." \o Zeros(d))
  ELSE IF e + d >= 0 THEN PointString(a, -e) \o Zeros(e + d)
  ELSE IF e + d < -9 THEN PointString(0, d)
  ELSE PointString(RoundDiv(a, Pow10(-(e + d))), d)

\* Number.prototype.toFixed(d), 0 <= d <= 3
ToFixed(x, d) ==
  IF IsNaN(x) THEN "NaN"
  ELSE IF IsInf(x) THEN (IF x.m > 0 THEN "Infinity" ELSE "-Infinity")
  ELSE IF x.m = 0 THEN PointString(0, d)
  ELSE (IF x.m < 0 THEN "-" ELSE "") \o FixedDigits(IAbs(x.m), x.e, d)

\* the remainder operator x % y of two numbers, |x| < 100000 and y > 0 finite
NumMod(x, y) ==
  IF ~IsFinite(x) \/ IsNaN(y) \/ (IsFinite(y) /\ y.m = 0) THEN NaN
  ELSE IF IsInf(y) THEN x
  ELSE Norm(ISign(x.m) * (ToFx(NAbs(x)) % ToFx(NAbs(y))), -4)

-----------------------------------------------------------------------------
(* The orbital mechanics solver *)

DEG2RAD == Div(MathPI, Fin(1800, -1))
RAD2DEG == Div(Fin(1800, -1), MathPI)

clamp(value, min, max) == MathMin(MathMax(value, min), max)

Vec(x, y, z) == [x |-> x, y |-> y, z |-> z]

\* the vector divided by its length
ScaledVector(vector, length) ==
  IF NumEq(length, Zero) THEN Vec(Zero, Zero, Zero)
  ELSE Vec(Div(vector.x, length), Div(vector.y, length), Div(vector.z, length))

normalizeVector(vector) ==
  ScaledVector(vector, MathHypot3(vector.x, vector.y, vector.z))

\* the number of Newton-Raphson steps of solveKeplerEquation
KeplerSteps == 12

\* one step of the loop of solveKeplerEquation
KeplerStep(E, meanAnomalyRad, eccentricity) ==
  Sub(E, Div(Sub(Sub(E, Mul(eccentricity, MathSin(E))), meanAnomalyRad),
             Sub(One, Mul(eccentricity, MathCos(E)))))

RECURSIVE KeplerLoop(_, _, _, _)
KeplerLoop(E, meanAnomalyRad, eccentricity, i) ==
  IF i >= KeplerSteps THEN E
  ELSE KeplerLoop(KeplerStep(E, meanAnomalyRad, eccentricity),
                  meanAnomalyRad, eccentricity, i + 1)

\* a variant that always starts from pi
KeplerStart_AlwaysPi(meanAnomalyRad, eccentricity) == MathPI

\* the initial guess of solveKeplerEquation
KeplerStart(meanAnomalyRad, eccentricity) ==
  IF Lt(eccentricity, Fin(8000, -4)) THEN meanAnomalyRad ELSE MathPI

solveKeplerEquation(meanAnomalyRad, eccentricity) ==
  KeplerLoop(KeplerStart(meanAnomalyRad, eccentricity), meanAnomalyRad, eccentricity, 0)

\* the six parsed elements of an orbital-data record
ParsedElements(orbitalData) ==
  [eccentricity |-> ParseFloat(orbitalData.eccentricity),
   inclinationDeg |-> ParseFloat(orbitalData.inclination),
   ascendingNodeDeg |-> ParseFloat(orbitalData.ascending_node_longitude),
   perihelionArgDeg |-> ParseFloat(orbitalData.perihelion_argument),
   meanAnomalyDeg |-> ParseFloat(orbitalData.mean_anomaly),
   semiMajorAu |-> ParseFloat(orbitalData.semi_major_axis)]

\* a variant that leaves out the last element
SomeNotFinite_FiveElements(el) ==
  \/ ~NumberIsFinite(el.eccentricity)
  \/ ~NumberIsFinite(el.inclinationDeg)
  \/ ~NumberIsFinite(el.ascendingNodeDeg)
  \/ ~NumberIsFinite(el.perihelionArgDeg)
  \/ ~NumberIsFinite(el.meanAnomalyDeg)

\* [..].some((value) => !Number.isFinite(value))
SomeNotFinite(el) ==
  \/ ~NumberIsFinite(el.eccentricity)
  \/ ~NumberIsFinite(el.inclinationDeg)
  \/ ~NumberIsFinite(el.ascendingNodeDeg)
  \/ ~NumberIsFinite(el.perihelionArgDeg)
  \/ ~NumberIsFinite(el.meanAnomalyDeg)
  \/ ~NumberIsFinite(el.semiMajorAu)

\* the true anomaly of an eccentric anomaly; half is eccentricAnomaly / 2
TrueAnomaly(half, eccentricity) ==
  Mul(Two,
      MathAtan2(Mul(MathSqrt(Add(One, eccentricity)), MathSin(half)),
                Mul(MathSqrt(Sub(One, eccentricity)), MathCos(half))))

\* the sines and cosines of the three orientation angles
OrientationOf(el) ==
  [cosO |-> MathCos(Mul(el.ascendingNodeDeg, DEG2RAD)),
   sinO |-> MathSin(Mul(el.ascendingNodeDeg, DEG2RAD)),
   cosI |-> MathCos(Mul(el.inclinationDeg, DEG2RAD)),
   sinI |-> MathSin(Mul(el.inclinationDeg, DEG2RAD)),
   cosW |-> MathCos(Mul(el.perihelionArgDeg, DEG2RAD)),
   sinW |-> MathSin(Mul(el.perihelionArgDeg, DEG2RAD))]

\* pVector and qVector
PVector(o) ==
  Vec(Sub(Mul(o.cosO, o.cosW), Mul(Mul(o.sinO, o.sinW), o.cosI)),
      Add(Mul(o.sinO, o.cosW), Mul(Mul(o.cosO, o.sinW), o.cosI)),
      Mul(o.sinW, o.sinI))

\* a variant whose first component has lost the sign of cosO * sinW
QVector_SignLost(o) ==
  Vec(Sub(Mul(o.cosO, o.sinW), Mul(Mul(o.sinO, o.cosW), o.cosI)),
      Add(Mul(Neg(o.sinO), o.sinW), Mul(Mul(o.cosO, o.cosW), o.cosI)),
      Mul(o.cosW, o.sinI))

QVector(o) ==
  Vec(Sub(Mul(Neg(o.cosO), o.sinW), Mul(Mul(o.sinO, o.cosW), o.cosI)),
      Add(Mul(Neg(o.sinO), o.sinW), Mul(Mul(o.cosO, o.cosW), o.cosI)),
      Mul(o.cosW, o.sinI))

\* -sin(E) * p + sqrt(1 - e^2) * cos(E) * q, with ms = -sin(E), c = sqrt(1 - e^2) cos(E)
VelocityCombination(pVector, qVector, ms, c) ==
  Vec(Add(Mul(ms, pVector.x), Mul(c, qVector.x)),
      Add(Mul(ms, pVector.y), Mul(c, qVector.y)),
      Add(Mul(ms, pVector.z), Mul(c, qVector.z)))

VelocityVector(pVector, qVector, eccentricAnomaly, eccentricity) ==
  normalizeVector(
    VelocityCombination(pVector, qVector, Neg(MathSin(eccentricAnomaly)),
      Mul(MathSqrt(MathMax(Zero, Sub(One, Mul(eccentricity, eccentricity)))),
          MathCos(eccentricAnomaly))))

\* relativeVelocityKms && Number.isFinite(relativeVelocityKms) ? relativeVelocityKms : null
UsableVelocity(relativeVelocityKms) ==
  /\ relativeVelocityKms.t = "number"
  /\ IsFinite(relativeVelocityKms.n)
  /\ relativeVelocityKms.n.m # 0

\* Math.atan2(verticalMagnitude * v, Math.max(1e-6, horizontalMagnitude * v))
ImpactAngleRad(verticalMagnitude, horizontalMagnitude, relativeVelocityKms) ==
  IF UsableVelocity(relativeVelocityKms)
    THEN MathAtan2(Mul(verticalMagnitude, relativeVelocityKms.n),
                   MathMax(Fin(1000, -9), Mul(horizontalMagnitude, relativeVelocityKms.n)))
  ELSE MathAtan2(verticalMagnitude, MathMax(Fin(1000, -9), horizontalMagnitude))

\* a non-finite angle becomes 45 degrees; then the angle is clamped to [5, 90]
ImpactAngleDeg(deg) ==
  clamp(IF ~NumberIsFinite(deg) THEN Fin(4500, -2) ELSE deg, Fin(5000, -3), Fin(9000, -2))

\* the impact angle in degrees of a velocity direction
ImpactAngle(velocityVector, relativeVelocityKms) ==
  ImpactAngleDeg(
    Mul(ImpactAngleRad(NAbs(velocityVector.z),
                       MathHypot2(velocityVector.x, velocityVector.y),
                       relativeVelocityKms),
        RAD2DEG))

\* the impact azimuth in degrees of a velocity direction
ImpactAzimuth(velocityVector) ==
  NumMod(Add(Mul(MathAtan2(velocityVector.x, velocityVector.y), RAD2DEG), Fin(3600, -1)),
         Fin(3600, -1))

\* the geometry returned for a velocity direction
GeometryRecord(el, relativeVelocityKms, pVector, qVector, trueAnomalyRad, velocityVector) ==
  IF /\ NumEq(velocityVector.x, Zero)
     /\ NumEq(velocityVector.y, Zero)
     /\ NumEq(velocityVector.z, Zero)
    THEN Null
  ELSE [t |-> "geometry",
        p |-> <<pVector.x, pVector.y, pVector.z>>,
        q |-> <<qVector.x, qVector.y, qVector.z>>,
        eccentricity |-> el.eccentricity,
        inclinationDeg |-> el.inclinationDeg,
        semiMajorAu |-> el.semiMajorAu,
        trueAnomalyRad |-> trueAnomalyRad,
        impactAngleDeg |-> ImpactAngle(velocityVector, relativeVelocityKms),
        impactAzimuthDeg |-> ImpactAzimuth(velocityVector)]

\* the geometry from the basis vectors and the eccentric anomaly
GeometryAt(el, relativeVelocityKms, pVector, qVector, eccentricAnomaly) ==
  GeometryRecord(el, relativeVelocityKms, pVector, qVector,
                 TrueAnomaly(Div(eccentricAnomaly, Two), el.eccentricity),
                 VelocityVector(pVector, qVector, eccentricAnomaly, el.eccentricity))

GeometryIn(el, relativeVelocityKms, orientation) ==
  GeometryAt(el, relativeVelocityKms, PVector(orientation), QVector(orientation),
             solveKeplerEquation(Mul(el.meanAnomalyDeg, DEG2RAD), el.eccentricity))

\* the geometry of six finite elements
GeometryOf(el, relativeVelocityKms) ==
  GeometryIn(el, relativeVelocityKms, OrientationOf(el))

\* the geometry of the parsed elements, null when one is not finite
GeometryOfParsed(el, relativeVelocityKms) ==
  IF SomeNotFinite(el) THEN Null ELSE GeometryOf(el, relativeVelocityKms)

computeOrbitalGeometry(orbitalData, relativeVelocityKms) ==
  IF orbitalData.t # "object" THEN Null
  ELSE GeometryOfParsed(ParsedElements(orbitalData), relativeVelocityKms)

-----------------------------------------------------------------------------
(* State *)

VARIABLES
  geoIn,    \* the arguments of a call of computeOrbitalGeometry
  geoOut,   \* what the call returned, NotCalled before it
  hasWindow,               \* typeof window !== 'undefined'
  hasDocument,             \* typeof document !== 'undefined'
  image,                   \* the density-map asset: its size and its pixels
  imageState,              \* the Image element: "none", "loading", "loaded", "error"
  imageLoads,              \* the number of Image elements created
  populationMapPromise,    \* "null", "pending" or "resolved"
  populationMapContext,    \* "null" or "ctx"
  populationMapWidth,
  populationMapHeight,
  populationDensityCache,  \* a function from keys to numbers
  densIn,   \* the arguments of the last call of estimatePopulationDensity
  densOut,  \* what it returned
  scenario,        \* what the network answers during a call of fetchNearEarthAsteroids
  fetchPc,         \* where the call stands: "idle", "awaitFeed", "awaitJson", "awaitAll", "done"
  asteroids,       \* the array of normalized records
  tasks,           \* the detail tasks: "fetching", "parsing" or "done"
  detailRequests,  \* the ids of the detail requests sent, in the order sent
  fetchResult,     \* what the promise of fetchNearEarthAsteroids settled with
  impIn,    \* the arguments of the last call of calculateImpactEffects
  impOut,   \* what it returned
  pagePc,            \* the Index page: "mounted", "awaitFetch" or "settled"
  loading,           \* Index: loading
  indexAsteroids,    \* Index: asteroids
  toasts,            \* the notifications shown, in the order shown
  filters,           \* Index: filters
  selectedAsteroid,  \* Index: selectedAsteroid, an asteroid or Null
  isSimulationOpen,  \* Index: isSimulationOpen
  simulationPhase,   \* SimulationModal: "preview", "targeting" or "impact"
  modalTargetLocation  \* SimulationModal: targetLocation, a location or Null

geoVars == <<geoIn, geoOut>>
envVars == <<hasWindow, hasDocument, image>>
mapVars == <<imageState, imageLoads, populationMapPromise, populationMapContext,
             populationMapWidth, populationMapHeight>>
densVars == <<envVars, mapVars, populationDensityCache, densIn, densOut>>
fetchVars == <<scenario, fetchPc, asteroids, tasks, detailRequests, fetchResult>>
impVars == <<impIn, impOut>>
loadVars == <<pagePc, loading, indexAsteroids, toasts>>
modalVars == <<simulationPhase, modalTargetLocation>>
pageVars == <<loadVars, filters, selectedAsteroid, isSimulationOpen, modalVars>>
vars == <<geoVars, densVars, fetchVars, impVars, pageVars>>

NotCalled == [t |-> "notcalled"]

-----------------------------------------------------------------------------
(* The population density estimator *)

POPULATION_MAP_BOUNDS == [minX |-> 1, minY |-> 32, maxX |-> 1671, maxY |-> 1166]

EARTH_RADIUS_KM == 6371

Center(lat, lng, density, sigmaKm) ==
  [lat |-> lat, lng |-> lng, density |-> density, sigmaKm |-> sigmaKm]

populationCenters ==
  <<Center(D(286139, -4), D(77209, -3), D(14000, 0), D(230, 0)),
    Center(D(19076, -3), D(728777, -4), D(15000, 0), D(180, 0)),
    Center(D(407128, -4), D(-74006, -3), D(11500, 0), D(160, 0)),
    Center(D(340522, -4), D(-1182437, -4), D(6500, 0), D(150, 0)),
    Center(D(515074, -4), D(-1278, -4), D(10200, 0), D(180, 0)),
    Center(D(399042, -4), D(1164074, -4), D(13500, 0), D(220, 0)),
    Center(D(356762, -4), D(1396503, -4), D(14800, 0), D(170, 0)),
    Center(D(-235505, -4), D(-466333, -4), D(9300, 0), D(210, 0)),
    Center(D(-12864, -4), D(368172, -4), D(7200, 0), D(190, 0)),
    Center(D(65244, -4), D(33792, -4), D(13800, 0), D(210, 0)),
    Center(D(-62088, -4), D(1068456, -4), D(12500, 0), D(200, 0)),
    Center(D(300444, -4), D(312357, -4), D(9800, 0), D(170, 0)),
    Center(D(557558, -4), D(376173, -4), D(7800, 0), D(200, 0)),
    Center(D(194326, -4), D(-991332, -4), D(11800, 0), D(190, 0)),
    Center(D(-346037, -4), D(-583816, -4), D(8700, 0), D(180, 0)),
    Center(D(375665, -4), D(126978, -3), D(14200, 0), D(150, 0)),
    Center(D(410082, -4), D(289784, -4), D(9700, 0), D(170, 0)),
    Center(D(145995, -4), D(1209842, -4), D(12100, 0), D(180, 0))>>

toRadians(degrees) == Div(Mul(degrees, MathPI), Fin(1800, -1))

\* a of haversineDistanceKm; sLat and sLng are the sines of the half differences
HaversineTerm(sLat, sLng, lat1, lat2) ==
  Add(Mul(sLat, sLat),
      Mul(Mul(Mul(MathCos(toRadians(lat1)), MathCos(toRadians(lat2))), sLng), sLng))

\* c of haversineDistanceKm
CentralAngle(a) == Mul(Two, MathAtan2(MathSqrt(a), MathSqrt(Sub(One, a))))

haversineDistanceKm(lat1, lng1, lat2, lng2) ==
  Mul(Norm(EARTH_RADIUS_KM, 0),
      CentralAngle(HaversineTerm(MathSin(Div(toRadians(Sub(lat2, lat1)), Two)),
                                 MathSin(Div(toRadians(Sub(lng2, lng1)), Two)),
                                 lat1, lat2)))

\* the loop over populationCenters: the distance to each centre, ...
CenterDistance(lat, lng, center) == haversineDistanceKm(lat, lng, center.lat, center.lng)

CenterDistances(lat, lng) ==
  [i \in 1..18 |-> CenterDistance(lat, lng, populationCenters[i])]

\* ... what a centre contributes, ...
CenterContribution(center, distanceKm) ==
  Mul(center.density,
      MathExp(Div(Neg(MathPow(distanceKm, Two)),
                  Mul(Mul(Two, center.sigmaKm), center.sigmaKm))))

\* ... density after the first i centres, ...
RECURSIVE DensityAfter(_, _)
DensityAfter(distances, i) ==
  IF i = 0 THEN Zero
  ELSE Add(DensityAfter(distances, i - 1),
           CenterContribution(populationCenters[i], distances[i]))

\* ... and minDistance after the first i centres
NearerOf(distanceKm, minDistance) ==
  IF Lt(distanceKm, minDistance) THEN distanceKm ELSE minDistance

RECURSIVE MinDistanceAfter(_, _)
MinDistanceAfter(distances, i) ==
  IF i = 0 THEN PosInf
  ELSE NearerOf(distances[i], MinDistanceAfter(distances, i - 1))

CentersLoopOver(distances) ==
  [density |-> DensityAfter(distances, Len(distances)),
   minDistance |-> MinDistanceAfter(distances, Len(distances))]

CentersLoop(lat, lng) == CentersLoopOver(CenterDistances(lat, lng))

LatWeight(lat) ==
  MathPow(MathMax(Zero, Sub(One, MathPow(Div(NAbs(lat), D(72, 0)), D(16, -1)))),
          D(12, -1))

\* baseDensity + continentalBias
NearbyBonus(latWeight) == Add(D(25, 0), Mul(latWeight, D(220, 0)))

FallbackDensity(latWeight, loop) ==
  IF Lt(loop.minDistance, D(600, 0)) THEN Add(loop.density, NearbyBonus(latWeight))
  ELSE IF Lt(loop.minDistance, D(1200, 0))
    THEN Add(loop.density, Mul(NearbyBonus(latWeight), D(4, -1)))
  ELSE loop.density

ClampDensity(density) == MathMin(MathMax(density, Zero), D(30000, 0))

estimatePopulationDensityFallback(lat, lng) ==
  ClampDensity(FallbackDensity(LatWeight(lat), CentersLoop(lat, lng)))

\* the integer a whole number stands for
ToInt(x) == IF x.e >= 0 THEN x.m * Pow10(x.e) ELSE x.m \div Pow10(-x.e)

\* the colours the density map is painted with
Palette ==
  <<<<255, 255, 255>>, <<251, 251, 251>>, <<250, 250, 250>>, <<0, 0, 0>>,
    <<128, 128, 128>>, <<255, 0, 0>>>>

\* getImageData(px, py, 1, 1).data of the loaded image
PixelAt(px, py) == Palette[((px + py + image.shift) % 6) + 1]

Grayscale(pixel) ==
  Add(Add(Mul(D(299, -3), Norm(pixel[1], 0)), Mul(D(587, -3), Norm(pixel[2], 0))),
      Mul(D(114, -3), Norm(pixel[3], 0)))

DensityOfGray(grayscale) ==
  MathRound(Mul(MathMin(One, MathMax(Zero, Div(Sub(D(255, 0), grayscale), D(255, 0)))),
                D(30000, 0)))

\* the density of a pixel [r, g, b]
PixelDensity(pixel) ==
  IF pixel[1] > 250 /\ pixel[2] > 250 /\ pixel[3] > 250 THEN Zero
  ELSE DensityOfGray(Grayscale(pixel))

CacheKey(lat, lng) == ToFixed(lat, 3) \o "|" \o ToFixed(lng, 3)

\* a variant that keeps only the entry written last
CacheSet_Forgetful(cache, key, value) == [k \in {key} |-> value]

CacheSet(cache, key, value) ==
  [k \in DOMAIN cache \cup {key} |-> IF k = key THEN value ELSE cache[k]]

\* x and y of samplePopulationDensityFromMap
MapX(lng) ==
  Add(Norm(POPULATION_MAP_BOUNDS.minX, 0),
      Mul(Div(Add(lng, D(180, 0)), D(360, 0)),
          Norm(POPULATION_MAP_BOUNDS.maxX - POPULATION_MAP_BOUNDS.minX, 0)))

MapY(lat) ==
  Add(Norm(POPULATION_MAP_BOUNDS.minY, 0),
      Mul(Div(Sub(D(90, 0), lat), D(180, 0)),
          Norm(POPULATION_MAP_BOUNDS.maxY - POPULATION_MAP_BOUNDS.minY, 0)))

\* what samplePopulationDensityFromMap returns with the cache it leaves
Sampled(ret, cache) == [ret |-> ret, cache |-> cache]

SampleDensity(key, density) ==
  Sampled(Num(density), CacheSet(populationDensityCache, key, density))

SamplePixel(key, px, py) ==
  IF \/ Lt(px, Zero) \/ Lt(py, Zero)
     \/ Ge(px, Norm(populationMapWidth, 0))
     \/ Ge(py, Norm(populationMapHeight, 0))
    THEN Sampled(Null, CacheSet(populationDensityCache, key, Zero))
  ELSE SampleDensity(key, PixelDensity(PixelAt(ToInt(px), ToInt(py))))

SampleAt(key, x, y) ==
  IF ~NumberIsFinite(x) \/ ~NumberIsFinite(y)
    THEN Sampled(Null, CacheSet(populationDensityCache, key, Zero))
  ELSE SamplePixel(key, MathRound(x), MathRound(y))

SampleKeyed(lat, lng, key) ==
  IF key \in DOMAIN populationDensityCache
    THEN Sampled(Num(populationDensityCache[key]), populationDensityCache)
  ELSE SampleAt(key, MapX(lng), MapY(lat))

\* a variant without the test of populationMapContext
samplePopulationDensityFromMap_NoContextTest(lat, lng) ==
  SampleKeyed(lat, lng, CacheKey(lat, lng))

samplePopulationDensityFromMap(lat, lng) ==
  IF populationMapContext = "null" THEN Sampled(Null, populationDensityCache)
  ELSE SampleKeyed(lat, lng, CacheKey(lat, lng))

\* a variant without the test of populationMapPromise
initPopulationDensityMap_NotMemoized ==
  IF hasDocument
    THEN /\ populationMapPromise' = "pending"
         /\ imageState' = "loading"
         /\ imageLoads' = imageLoads + 1
         /\ UNCHANGED <<populationMapContext, populationMapWidth, populationMapHeight>>
    ELSE UNCHANGED mapVars

\* initPopulationDensityMap: it creates the Image element at most once
initPopulationDensityMap ==
  IF populationMapPromise = "null" /\ hasDocument
    THEN /\ populationMapPromise' = "pending"
         /\ imageState' = "loading"
         /\ imageLoads' = imageLoads + 1
         /\ UNCHANGED <<populationMapContext, populationMapWidth, populationMapHeight>>
    ELSE UNCHANGED mapVars

\* image.onload
ImageOnload(ctxAvailable) ==
  /\ imageState = "loading"
  /\ imageState' = "loaded"
  /\ populationMapPromise' = "resolved"
  /\ IF ctxAvailable
       THEN /\ populationMapContext' = "ctx"
            /\ populationMapWidth' = image.width
            /\ populationMapHeight' = image.height
       ELSE UNCHANGED <<populationMapContext, populationMapWidth, populationMapHeight>>
  /\ UNCHANGED imageLoads

\* image.onerror
ImageOnerror ==
  /\ imageState = "loading"
  /\ imageState' = "error"
  /\ populationMapPromise' = "resolved"
  /\ UNCHANGED <<imageLoads, populationMapContext, populationMapWidth, populationMapHeight>>

\* the first test of estimatePopulationDensity
DensityEarlyReturn(lat, lng) ==
  \/ lat = Undefined
  \/ lng = Undefined
  \/ IsNaN(lat.n)
  \/ IsNaN(lng.n)

\* what estimatePopulationDensity returns, the cache it leaves, and whether it
\* called initPopulationDensityMap
Estimated(value, cache, init) == [value |-> value, cache |-> cache, init |-> init]

\* the coordinates estimatePopulationDensity is called with
FiniteCoordinates ==
  {<<D(2861, -2), D(7721, -2)>>,     \* Delhi
   <<D(4886, -2), D(2352, -3)>>,     \* Paris
   <<Zero, D(-160, 0)>>,             \* the Pacific
   <<D(1231, -4), D(10, 0)>>,        \* two points with one cache key
   <<D(1234, -4), D(10, 0)>>,
   <<D(2861, -2), D(4372, -1)>>,     \* Delhi one turn further east: off the map
   <<D(1, 308), Zero>>}              \* the largest magnitudes

NonFiniteCoordinates ==
  {<<NaN, Zero>>, <<Zero, NaN>>, <<PosInf, Zero>>, <<Zero, NegInf>>, <<NegInf, PosInf>>}

\* estimatePopulationDensityFallback of each of them, computed once
FallbackOf ==
  [c \in FiniteCoordinates \cup NonFiniteCoordinates |->
     estimatePopulationDensityFallback(c[1], c[2])]

EstimateFrom(lat, lng, rasterDensity) ==
  Estimated(IF rasterDensity.ret # Null THEN rasterDensity.ret.n
            ELSE FallbackOf[<<lat, lng>>],
            rasterDensity.cache, hasDocument)

estimatePopulationDensity(lat, lng) ==
  IF DensityEarlyReturn(lat, lng) THEN Estimated(D(120, 0), populationDensityCache, FALSE)
  ELSE EstimateFrom(lat.n, lng.n, samplePopulationDensityFromMap(lat.n, lng.n))

-----------------------------------------------------------------------------
(* The catalog adapter *)

\* the sizes fixed by the code
MockCount == 50
DetailFetchCap == 40
ResultCap == 100

\* an Asteroid right after normalization: no orbital field is set.  The
\* fields name, close_approach_date, absolute_magnitude and the display
\* position x, y, z are copied or drawn at random and never read again by
\* the adapter; they are left out.
Asteroid(id, diameter_km, velocity_kmh, velocity_kms, miss_distance_km) ==
  [id |-> id,
   diameter_km |-> diameter_km,
   velocity_kmh |-> velocity_kmh,
   velocity_kms |-> velocity_kms,
   miss_distance_km |-> miss_distance_km,
   orbital_inclination_deg |-> Undefined,
   orbital_eccentricity |-> Undefined,
   semi_major_axis_au |-> Undefined,
   orbit_p_vector |-> Undefined,
   orbit_q_vector |-> Undefined,
   true_anomaly_rad |-> Undefined,
   impact_angle_deg |-> Undefined,
   impact_azimuth_deg |-> Undefined]

\* entry i of generateMockAsteroids
MockWith(i, diameter, velocity, missDistance) ==
  [Asteroid("mock-" \o ToString(i), Num(diameter), Num(velocity),
            Num(Div(velocity, D(3600, 0))), Num(missDistance))
     EXCEPT !.impact_angle_deg = Num(D(45, 0)),
            !.impact_azimuth_deg = Num(Norm((i * 30) % 360, 0))]

\* random stands for the values of Math.random()
MockAsteroid(i, random) ==
  MockWith(i, Add(D(5, -2), Mul(random, D(25, -1))),
           Add(D(20000, 0), Mul(random, D(80000, 0))),
           Add(D(1000000, 0), Mul(random, D(50000000, 0))))

\* a variant with one entry less
generateMockAsteroids_OneShort(random) ==
  [k \in 1..(MockCount - 1) |-> MockAsteroid(k - 1, random)]

generateMockAsteroids(random) ==
  [k \in 1..MockCount |-> MockAsteroid(k - 1, random)]

\* an array value
Arr(items) == [t |-> "array", items |-> items]

\* value ?? fallback
Coalesce(value, fallback) ==
  IF value = Undefined \/ value = Null THEN fallback ELSE value

\* velocity_kms of a normalized record
FiniteOrUndefined(x) == IF NumberIsFinite(x) THEN Num(x) ELSE Undefined

\* what the callback of the inner forEach does with one record
Thrown == [t |-> "throw"]
Skipped == [t |-> "skip"]
Pushed(asteroid) == [t |-> "push", asteroid |-> asteroid]

\* a + b where a or b may be undefined
Plus(a, b) == IF a = Undefined \/ b = Undefined THEN NaN ELSE Add(a, b)

\* estimated_diameter stands for neo.estimated_diameter.kilometers: it is
\* Undefined when either object is missing, and reading a bound of it throws
NormalizeApproach(neo, closeApproach) ==
  IF \/ neo.estimated_diameter = Undefined
     \/ closeApproach.relative_velocity = Undefined
     \/ closeApproach.miss_distance = Undefined
    THEN Thrown
  ELSE Pushed(Asteroid(
         neo.id,
         Num(Div(Plus(neo.estimated_diameter.estimated_diameter_min,
                      neo.estimated_diameter.estimated_diameter_max), Two)),
         Num(ParseFloat(closeApproach.relative_velocity.kilometers_per_hour)),
         FiniteOrUndefined(ParseFloat(
           Coalesce(closeApproach.relative_velocity.kilometers_per_second, Str(<<"0">>)))),
         Num(ParseFloat(closeApproach.miss_distance.kilometers))))

\* a variant that throws where the record is left out
NormalizeRecord_Strict(neo) ==
  IF neo.close_approach_data = Undefined THEN Thrown
  ELSE IF Len(neo.close_approach_data.items) = 0 THEN Thrown
  ELSE NormalizeApproach(neo, neo.close_approach_data.items[1])

NormalizeRecord(neo) ==
  IF neo.close_approach_data = Undefined THEN Thrown
  ELSE IF Len(neo.close_approach_data.items) = 0 THEN Skipped
  ELSE NormalizeApproach(neo, neo.close_approach_data.items[1])

\* the records of near_earth_objects in the order of Object.keys and of each array
RECURSIVE FeedRecordsFrom(_, _)
FeedRecordsFrom(near_earth_objects, date) ==
  IF date > Len(near_earth_objects) THEN << >>
  ELSE near_earth_objects[date] \o FeedRecordsFrom(near_earth_objects, date + 1)

FeedRecords(near_earth_objects) == FeedRecordsFrom(near_earth_objects, 1)

NormalizeAll(records) == [i \in 1..Len(records) |-> NormalizeRecord(records[i])]

IsPushed(outcome) == outcome.t = "push"

AsteroidsOf(pushed) == [i \in 1..Len(pushed) |-> pushed[i].asteroid]

\* the orbital fields written from a geometry
WithGeometry(asteroid, geometry) ==
  [asteroid EXCEPT
     !.orbital_inclination_deg = Num(geometry.inclinationDeg),
     !.orbital_eccentricity = Num(geometry.eccentricity),
     !.semi_major_axis_au = Num(geometry.semiMajorAu),
     !.orbit_p_vector = Arr(geometry.p),
     !.orbit_q_vector = Arr(geometry.q),
     !.true_anomaly_rad = Num(geometry.trueAnomalyRad),
     !.impact_angle_deg = Num(geometry.impactAngleDeg),
     !.impact_azimuth_deg = Num(geometry.impactAzimuthDeg)]

\* a variant that sets the angle only
WithDefaults_AngleOnly(asteroid) ==
  [asteroid EXCEPT !.impact_angle_deg = IF @ = Undefined THEN Num(D(45, 0)) ELSE @]

\* the callback of the last forEach
WithDefaults(asteroid) ==
  [asteroid EXCEPT
     !.impact_angle_deg = IF @ = Undefined THEN Num(D(45, 0)) ELSE @,
     !.impact_azimuth_deg = IF @ = Undefined THEN Num(Zero) ELSE @]

AllWithDefaults(list) == [i \in 1..Len(list) |-> WithDefaults(list[i])]

\* a variant that keeps the whole list
Slice_Whole(list, n) == list

\* list.slice(0, n)
Slice(list, n) == SubSeq(list, 1, IMin(Len(list), n))

-----------------------------------------------------------------------------
(* The impact effects *)

Three == Fin(3000, -3)
MILES_PER_KM == D(621371, -6)

\* the decimal digits of an integer n >= 0, one string per digit
RECURSIVE IntegerDigits(_)
IntegerDigits(n) ==
  IF n < 10 THEN <<ToString(n)>> ELSE Append(IntegerDigits(n \div 10), ToString(n % 10))

RECURSIVE ZeroDigits(_)
ZeroDigits(n) == IF n <= 0 THEN << >> ELSE <<"0">> \o ZeroDigits(n - 1)

\* digits with a comma before every group of three counted from the right
RECURSIVE GroupedFrom(_, _)
GroupedFrom(digits, i) ==
  IF i > Len(digits) THEN ""
  ELSE (IF i > 1 /\ (Len(digits) - i + 1) % 3 = 0 THEN "," ELSE "") \o
       digits[i] \o GroupedFrom(digits, i + 1)

\* n groups of three zeros, each after a comma
RECURSIVE ZeroGroups(_)
ZeroGroups(n) ==
  IF n <= 0 THEN ""
  ELSE IF n % 2 = 1 THEN ",000" \o ZeroGroups(n - 1)
  ELSE ZeroGroups(n \div 2) \o ZeroGroups(n \div 2)

\* the one-character string U+221E that toLocaleString gives for Infinity
InfinitySign == "U+221E"

\* Number.prototype.toLocaleString() of an integer x >= 0 (en-US)
ToLocaleString(x) ==
  IF IsNaN(x) THEN "NaN"
  ELSE IF IsInf(x) THEN InfinitySign
  ELSE IF x.m = 0 THEN "0"
  ELSE IF x.e >= 0
    THEN GroupedFrom(IntegerDigits(x.m) \o ZeroDigits(x.e % 3), 1) \o ZeroGroups(x.e \div 3)
  ELSE GroupedFrom(IntegerDigits(x.m \div Pow10(-x.e)), 1)

formatInteger(value) == ToLocaleString(MathMax(Zero, MathRound(value)))

\* the energy proxy of calculateImpactEffects
ImpactEnergy(asteroid) ==
  Div(Mul(Mul(D(5, -1), MathPow(asteroid.diameter_km.n, Three)),
          MathPow(Div(asteroid.velocity_kmh.n, D(3600, 0)), Two)),
      D(1000, 0))

CircleArea(radius) == Mul(MathPI, MathPow(radius, Two))

Miles(km, d) == ToFixed(Mul(km, MILES_PER_KM), d)

ShockwaveDecibels(energy) ==
  MathMin(Add(D(200, 0), Mul(MathLog10(MathMax(One, energy)), D(10, 0))), D(250, 0))

\* a variant without Math.max(1, energy)
EarthquakeMagnitude_Unclamped(energy) ==
  MathMin(Add(D(5, 0), MathLog10(energy)), D(10, 0))

EarthquakeMagnitude(energy) ==
  MathMin(Add(D(5, 0), MathLog10(MathMax(One, energy))), D(10, 0))

AverageYears(energy) == MathMax(MathFloor(Mul(energy, D(15000, 0))), D(1000, 0))

\* the casualty estimates, before they are rounded and printed
craterCasualties(areas, populationDensity) ==
  Mul(Mul(areas.craterArea, populationDensity), D(95, -2))

fireballDeaths(areas, populationDensity) ==
  MathMax(Zero, Mul(Mul(Sub(areas.fireballArea, areas.craterArea), populationDensity), D(85, -2)))

fireball3rdBurns(areas, populationDensity) ==
  Mul(Mul(areas.fireballArea, populationDensity), D(6, -2))

fireball2ndBurns(areas, populationDensity) ==
  Mul(Mul(areas.fireballArea, populationDensity), D(12, -2))

shockwaveDeaths(areas, populationDensity) ==
  MathMax(Zero, Mul(Mul(Sub(areas.shockwaveArea, areas.fireballArea), populationDensity), D(28, -2)))

windBlastDeaths(areas, populationDensity) ==
  MathMax(Zero, Mul(Mul(Sub(areas.windBlastArea, areas.fireballArea), populationDensity), D(18, -2)))

earthquakeDeaths(radii, populationDensity) ==
  Mul(Mul(radii.earthquakeRadius, populationDensity), D(15, -3))

exposedPopulation(areas, populationDensity) == Mul(areas.shockwaveArea, populationDensity)

\* a variant whose threshold test is >= 0.5
tsunami_height_m_Inclusive(diameter_km) ==
  IF Ge(diameter_km, D(5, -1)) THEN ToFixed(Mul(diameter_km, D(10, 0)), 1) ELSE "0"

tsunami_height_m(diameter_km) ==
  IF Gt(diameter_km, D(5, -1)) THEN ToFixed(Mul(diameter_km, D(10, 0)), 1) ELSE "0"

\* the record returned, from the values computed before it
EffectsOfAreas(asteroid, energy, radii, populationDensity, areas) ==
  [energy_megatons |-> ToFixed(energy, 2),
   impact_speed_mph |-> Miles(Mul(asteroid.velocity_kmh.n, D(95, -2)), 0),
   average_occurrence_years |-> ToLocaleString(AverageYears(energy)),
   local_population_density_per_km2 |-> ToFixed(populationDensity, 0),
   estimated_population_exposed |-> formatInteger(exposedPopulation(areas, populationDensity)),
   crater_diameter_km |-> ToFixed(radii.craterDiameter, 2),
   crater_diameter_miles |-> Miles(radii.craterDiameter, 1),
   crater_depth_ft |-> ToFixed(Mul(Mul(radii.craterDiameter, D(3, -1)), D(328084, -2)), 0),
   crater_casualties |-> formatInteger(craterCasualties(areas, populationDensity)),
   fireball_radius_km |-> ToFixed(radii.fireballRadius, 2),
   fireball_radius_miles |-> Miles(radii.fireballRadius, 1),
   fireball_deaths |-> formatInteger(fireballDeaths(areas, populationDensity)),
   fireball_3rd_degree_burns |-> formatInteger(fireball3rdBurns(areas, populationDensity)),
   fireball_2nd_degree_burns |-> formatInteger(fireball2ndBurns(areas, populationDensity)),
   fireball_tree_ignition_miles |-> Miles(Mul(radii.fireballRadius, D(8, -1)), 0),
   shockwave_radius_km |-> ToFixed(radii.shockwaveRadius, 2),
   shockwave_radius_miles |-> Miles(radii.shockwaveRadius, 1),
   shockwave_decibels |-> ToFixed(ShockwaveDecibels(energy), 0),
   shockwave_deaths |-> formatInteger(shockwaveDeaths(areas, populationDensity)),
   shockwave_lung_damage_miles |-> Miles(Mul(radii.shockwaveRadius, D(3, -1)), 0),
   shockwave_eardrum_rupture_miles |-> Miles(Mul(radii.shockwaveRadius, D(4, -1)), 0),
   shockwave_building_collapse_miles |-> Miles(Mul(radii.shockwaveRadius, D(7, -1)), 0),
   shockwave_home_collapse_miles |-> Miles(Mul(radii.shockwaveRadius, D(9, -1)), 0),
   wind_blast_radius_km |-> ToFixed(radii.windBlastRadius, 2),
   wind_blast_radius_miles |-> Miles(radii.windBlastRadius, 1),
   wind_peak_speed_mph |->
     Miles(MathMin(Mul(asteroid.velocity_kmh.n, D(1, -1)), D(15000, 0)), 0),
   wind_deaths |-> formatInteger(windBlastDeaths(areas, populationDensity)),
   wind_jupiter_storm_miles |-> Miles(Mul(radii.windBlastRadius, D(2, -1)), 0),
   wind_complete_level_miles |-> Miles(Mul(radii.windBlastRadius, D(35, -2)), 0),
   wind_ef5_tornado_miles |-> Miles(Mul(radii.windBlastRadius, D(6, -1)), 0),
   wind_trees_down_miles |-> Miles(radii.windBlastRadius, 0),
   earthquake_magnitude |-> ToFixed(EarthquakeMagnitude(energy), 1),
   earthquake_deaths |-> formatInteger(earthquakeDeaths(radii, populationDensity)),
   earthquake_felt_miles |-> Miles(radii.earthquakeRadius, 0),
   tsunami_height_m |-> tsunami_height_m(asteroid.diameter_km.n)]

\* the areas of the zones
AreasOf(radii) ==
  [craterArea |-> Mul(MathPI, MathPow(Div(radii.craterDiameter, Two), Two)),
   fireballArea |-> CircleArea(radii.fireballRadius),
   shockwaveArea |-> CircleArea(radii.shockwaveRadius),
   windBlastArea |-> CircleArea(radii.windBlastRadius)]

EffectsOfRadii(asteroid, energy, radii, populationDensity) ==
  EffectsOfAreas(asteroid, energy, radii, populationDensity, AreasOf(radii))

\* the sizes of the zones
RadiiOf(diameter_km) ==
  [craterDiameter |-> Mul(diameter_km, D(20, 0)),
   fireballRadius |-> Mul(diameter_km, D(5, 0)),
   shockwaveRadius |-> Mul(diameter_km, D(50, 0)),
   windBlastRadius |-> Mul(diameter_km, D(40, 0)),
   earthquakeRadius |-> Mul(diameter_km, D(100, 0))]

\* a variant without the Number.isFinite test
PopulationDensityOf_Unchecked(localPopulationDensity) == localPopulationDensity

\* Number.isFinite(localPopulationDensity) ? localPopulationDensity : 120
PopulationDensityOf(localPopulationDensity) ==
  IF NumberIsFinite(localPopulationDensity) THEN localPopulationDensity ELSE D(120, 0)

EffectsWithDensity(asteroid, populationDensity) ==
  EffectsOfRadii(asteroid, ImpactEnergy(asteroid), RadiiOf(asteroid.diameter_km.n),
                 populationDensity)

\* targetLocation?.lat and targetLocation?.lng
OptionalField(targetLocation, field) ==
  IF targetLocation = Undefined THEN Undefined ELSE targetLocation[field]

\* the effects, and what the call of estimatePopulationDensity left behind
ImpactFrom(asteroid, estimate) ==
  [effects |-> EffectsWithDensity(asteroid, PopulationDensityOf(estimate.value)),
   estimate |-> estimate]

calculateImpactEffects(asteroid, targetLocation) ==
  ImpactFrom(asteroid, estimatePopulationDensity(OptionalField(targetLocation, "lat"),
                                                 OptionalField(targetLocation, "lng")))

-----------------------------------------------------------------------------
(* Calls of computeOrbitalGeometry *)

Obj(e, i, o, w, m, a) ==
  [t |-> "object", eccentricity |-> e, inclination |-> i,
   ascending_node_longitude |-> o, perihelion_argument |-> w,
   mean_anomaly |-> m, semi_major_axis |-> a]

EccentricityInputs ==
  {Str(<<"0">>), Str(<<"0", ".", "5">>), Str(<<".", "8", "5">>), Str(<<"1">>),
   Str(<<"1", ".", "5">>), Str(<<"-", "1">>)}
InclinationInputs == {Str(<<"0">>), Str(<<"1", "0", ".", "5">>), Str(<<"9", "0">>)}
AscendingNodeInputs == {Str(<<"0">>), Str(<<"1", "2", "0">>)}
PerihelionInputs == {Str(<<"0">>), Str(<<"2", "5", "0">>)}
MeanAnomalyInputs ==
  {Str(<<"0">>), Str(<<"4", "5">>), Str(<<"1", "8", "0">>), Str(<<"3", "0", "0", " ">>)}
SemiMajorInputs == {Str(<<"1", ".", "2">>)}

\* field values that do not parse to a finite number
NonFiniteInputs ==
  {Undefined, Str(<< >>), Str(<<"N", "a", "N">>), Str(<<"a", "b", "c">>),
   Str(<<"I", "n", "f", "i", "n", "i", "t", "y">>), Str(<<"-", "1", "e", "9", "9", "9">>)}

ElementNames ==
  {"eccentricity", "inclination", "ascending_node_longitude", "perihelion_argument",
   "mean_anomaly", "semi_major_axis"}

ValidOrbitalInputs ==
  {Obj(e, i, o, w, m, a) : e \in EccentricityInputs, i \in InclinationInputs,
     o \in AscendingNodeInputs, w \in PerihelionInputs, m \in MeanAnomalyInputs,
     a \in SemiMajorInputs}

CorruptOrbitalInputs ==
  {[Obj(e, Str(<<"1", "0", ".", "5">>), Str(<<"1", "2", "0">>), Str(<<"2", "5", "0">>),
        Str(<<"4", "5">>), Str(<<"1", ".", "2">>)) EXCEPT ![f] = b] :
     e \in {Str(<<"0", ".", "5">>), Str(<<"1", ".", "5">>)},
     f \in ElementNames, b \in NonFiniteInputs}

OrbitalInputs == {Undefined, Null} \cup ValidOrbitalInputs \cup CorruptOrbitalInputs

VelocityInputs ==
  {Undefined, Num(Zero), Num(D(-5, 0)), Num(NaN), Num(D(20, 0)), Num(PosInf)}

\* the module right after it is evaluated: the map is requested when there is
\* a window, and nothing is loaded or cached yet
ModuleEvaluated ==
  /\ populationMapContext = "null"
  /\ populationMapWidth = 0
  /\ populationMapHeight = 0
  /\ populationDensityCache = << >>
  /\ IF hasWindow /\ hasDocument
       THEN populationMapPromise = "pending" /\ imageState = "loading" /\ imageLoads = 1
       ELSE populationMapPromise = "null" /\ imageState = "none" /\ imageLoads = 0
  /\ densIn = NotCalled
  /\ densOut = NotCalled

\* an environment without window and document
Headless ==
  /\ hasWindow = FALSE
  /\ hasDocument = FALSE
  /\ image = [width |-> 0, height |-> 0, shift |-> 0]

\* no call of the other operations
GeomIdle == geoIn = NotCalled /\ geoOut = NotCalled

Scenario(feed, near_earth_objects, details) ==
  [feed |-> feed, near_earth_objects |-> near_earth_objects, details |-> details]

FetchIdle ==
  /\ scenario = Scenario("none", << >>, << >>)
  /\ fetchPc = "idle"
  /\ asteroids = << >>
  /\ tasks = << >>
  /\ detailRequests = << >>
  /\ fetchResult = NotCalled

ImpactIdle == impIn = NotCalled /\ impOut = NotCalled

\* the first render of Index and of SimulationModal: the initial states of useState
FirstRender ==
  /\ loading = TRUE
  /\ indexAsteroids = << >>
  /\ toasts = << >>
  /\ filters = [sizeRange |-> <<Zero, D(10, 0)>>, velocityRange |-> <<Zero, D(100000, 0)>>]
  /\ selectedAsteroid = Null
  /\ isSimulationOpen = FALSE
  /\ simulationPhase = "preview"
  /\ modalTargetLocation = Null

\* no page is mounted
PageIdle == pagePc = "none" /\ FirstRender

GeomInit ==
  /\ geoIn \in [orbitalData : OrbitalInputs, relativeVelocityKms : VelocityInputs]
  /\ geoOut = NotCalled
  /\ Headless
  /\ ModuleEvaluated
  /\ FetchIdle
  /\ ImpactIdle
  /\ PageIdle

CallComputeOrbitalGeometry ==
  /\ geoOut = NotCalled
  /\ geoOut' = computeOrbitalGeometry(geoIn.orbitalData, geoIn.relativeVelocityKms)
  /\ UNCHANGED <<geoIn, densVars, fetchVars, impVars, pageVars>>

GeomNext == CallComputeOrbitalGeometry

SpecGeom == GeomInit /\ [][GeomNext]_vars

-----------------------------------------------------------------------------
(* Calls of estimatePopulationDensity *)

MaxCacheEntries == 3

\* the map assets: the shipped size painted two ways, and a smaller image
Images ==
  {[width |-> 1672, height |-> 1167, shift |-> 0],
   [width |-> 1672, height |-> 1167, shift |-> 4],
   [width |-> 800, height |-> 600, shift |-> 3]}

DensityInputs ==
  {<<Num(c[1]), Num(c[2])>> : c \in FiniteCoordinates \cup NonFiniteCoordinates}
    \cup {<<Undefined, Num(Zero)>>, <<Num(Zero), Undefined>>, <<Undefined, Undefined>>}

DensityInit ==
  /\ hasWindow \in BOOLEAN
  /\ hasDocument \in BOOLEAN
  /\ image \in Images
  /\ ModuleEvaluated
  /\ GeomIdle
  /\ FetchIdle
  /\ ImpactIdle
  /\ PageIdle

MapLoaded ==
  /\ \E ctxAvailable \in BOOLEAN : ImageOnload(ctxAvailable)
  /\ UNCHANGED <<envVars, populationDensityCache, densIn, densOut>>
  /\ UNCHANGED <<geoVars, fetchVars, impVars, pageVars>>

MapFailed ==
  /\ ImageOnerror
  /\ UNCHANGED <<envVars, populationDensityCache, densIn, densOut>>
  /\ UNCHANGED <<geoVars, fetchVars, impVars, pageVars>>

\* a call of estimatePopulationDensity that returns r
EstimateReturns(args, r) ==
  /\ Cardinality(DOMAIN r.cache) <= MaxCacheEntries
  /\ densIn' = args
  /\ densOut' = Num(r.value)
  /\ populationDensityCache' = r.cache
  /\ IF r.init THEN initPopulationDensityMap ELSE UNCHANGED mapVars
  /\ UNCHANGED envVars

CallEstimatePopulationDensity ==
  /\ \E args \in DensityInputs :
       EstimateReturns(args, estimatePopulationDensity(args[1], args[2]))
  /\ UNCHANGED <<geoVars, fetchVars, impVars, pageVars>>

DensityNext == MapLoaded \/ MapFailed \/ CallEstimatePopulationDensity

SpecDensity == DensityInit /\ [][DensityNext]_vars

-----------------------------------------------------------------------------
(* Calls of fetchNearEarthAsteroids *)

MaxSmallFeed == 2
FreeTasks == 1

\* records of the feed
Approach(kilometers_per_second) ==
  [relative_velocity |->
     [kilometers_per_hour |-> Str(<<"4", "5", "0", "0", "0">>),
      kilometers_per_second |-> kilometers_per_second],
   miss_distance |-> [kilometers |-> Str(<<"7", "5", "0", "0", "0", "0", "0">>)]]

Diameter(estimated_diameter_min, estimated_diameter_max) ==
  [estimated_diameter_min |-> estimated_diameter_min,
   estimated_diameter_max |-> estimated_diameter_max]

FeedRecordOf(id, close_approach_data, estimated_diameter) ==
  [id |-> id,
   close_approach_data |-> close_approach_data,
   estimated_diameter |-> estimated_diameter]

FeedRecord(id, close_approach_data) ==
  FeedRecordOf(id, close_approach_data, Diameter(D(1, -1), D(3, -1)))

\* a record with everything, one without kilometers_per_second, and one whose
\* close_approach_data is empty
RecordKinds == {"full", "nokps", "empty"}

\* records that are malformed: without the diameter object, with a diameter
\* object without its two bounds, and without the close_approach_data list
MalformedKinds == {"nodiameter", "nobounds", "nolist"}

RecordOfKind(i, kind) ==
  IF kind = "nodiameter"
    THEN FeedRecordOf(ToString(i), Arr(<<Approach(Str(<<"1", "2", ".", "5">>))>>), Undefined)
  ELSE IF kind = "nobounds"
    THEN FeedRecordOf(ToString(i), Arr(<<Approach(Str(<<"1", "2", ".", "5">>))>>),
                      Diameter(Undefined, Undefined))
  ELSE IF kind = "nolist" THEN FeedRecord(ToString(i), Undefined)
  ELSE FeedRecord(ToString(i),
                  IF kind = "empty" THEN Arr(<< >>)
                  ELSE IF kind = "nokps" THEN Arr(<<Approach(Undefined)>>)
                  ELSE Arr(<<Approach(Str(<<"1", "2", ".", "5">>))>>))

\* the records of kinds in two dates
FeedOfKinds(kinds) ==
  <<[i \in 1..(Len(kinds) \div 2) |-> RecordOfKind(i, kinds[i])],
    [i \in 1..(Len(kinds) - Len(kinds) \div 2) |->
       RecordOfKind(Len(kinds) \div 2 + i, kinds[Len(kinds) \div 2 + i])]>>

\* answers to a detail request
Answer(fetch, json) == [fetch |-> fetch, json |-> json]
JsonRejects == [t |-> "reject"]
JsonBody(orbital_data) == [t |-> "json", orbital_data |-> orbital_data]

DetailObject(mean_anomaly) ==
  Answer("ok", JsonBody(
    Obj(Str(<<"0", ".", "5">>), Str(<<"1", "0", ".", "5">>), Str(<<"1", "2", "0">>),
        Str(<<"2", "5", "0">>), mean_anomaly, Str(<<"1", ".", "2">>))))

\* answers with a body: without elements, with a mean anomaly that is empty,
\* and with all six elements
DetailElements ==
  {Answer("ok", JsonBody(Undefined)), DetailObject(Str(<< >>)),
   DetailObject(Str(<<"4", "5">>)), DetailObject(Str(<<"1", "8", "0">>))}

DetailAnswers ==
  {Answer("reject", Undefined), Answer("notok", Undefined), Answer("ok", JsonRejects)}
    \cup DetailElements

\* velocity_kms of the records of the feed
FeedVelocities == {Num(D(125, -1)), Num(Zero)}

\* answers repeated over the tasks of a long feed: all with elements, and two
\* mixtures of failures
DetailPatterns ==
  <<<<DetailObject(Str(<<"4", "5">>))>>,
    <<Answer("reject", Undefined), DetailObject(Str(<<"1", "8", "0">>)),
      DetailObject(Str(<< >>))>>,
    <<Answer("ok", JsonRejects), Answer("notok", Undefined),
      Answer("ok", JsonBody(Undefined)), DetailObject(Str(<<"4", "5">>))>>>>

KeptCount(kinds) == Cardinality({i \in 1..Len(kinds) : kinds[i] # "empty"})

\* feeds of at most MaxSmallFeed records with every answer to every detail request
SmallKinds == UNION {[1..n -> RecordKinds] : n \in 0..MaxSmallFeed}

SmallScenarios ==
  UNION {{Scenario("ok", FeedOfKinds(kinds), details) :
            details \in [1..KeptCount(kinds) -> DetailAnswers]} : kinds \in SmallKinds}

\* feeds around the two limits, with and without records that are left out
LargeCase(size, withEmpty, pattern) ==
  [size |-> size, withEmpty |-> withEmpty, pattern |-> pattern]

LargeCases ==
  {LargeCase(DetailFetchCap + 1, FALSE, 1), LargeCase(DetailFetchCap + 1, FALSE, 2),
   LargeCase(DetailFetchCap + 1, TRUE, 3), LargeCase(ResultCap + 3, TRUE, 1),
   LargeCase(ResultCap + 3, FALSE, 3)}

LargeKinds(n, withEmpty) ==
  [i \in 1..n |-> IF withEmpty /\ i \in {2, n - 1} THEN "empty"
                  ELSE IF i % 7 = 0 THEN "nokps" ELSE "full"]

PatternDetails(count, pattern) ==
  [i \in 1..count |-> pattern[(i % Len(pattern)) + 1]]

LargeScenario(kinds, pattern) ==
  Scenario("ok", FeedOfKinds(kinds),
           PatternDetails(IMin(KeptCount(kinds), DetailFetchCap), pattern))

LargeScenarios ==
  {LargeScenario(LargeKinds(c.size, c.withEmpty), DetailPatterns[c.pattern]) : c \in LargeCases}

\* the feed request rejects, answers with an error status, answers with a
\* body that is not JSON, or with JSON without near_earth_objects
FailedScenarios ==
  {Scenario(feed, << >>, << >>) : feed \in {"reject", "notok", "badjson", "nofield"}}

\* feeds with one malformed record: alone, after two good records, and between
\* a record that is left out and a good one; every detail request is answered
MalformedFeeds(kind) ==
  {<<kind>>, <<"full", "full", kind>>, <<"empty", kind, "full">>}

MalformedScenarios ==
  {Scenario("ok", FeedOfKinds(kinds), [i \in 1..KeptCount(kinds) |-> DetailObject(Str(<<"4", "5">>))]) :
     kinds \in UNION {MalformedFeeds(kind) : kind \in MalformedKinds}}

Scenarios == SmallScenarios \cup LargeScenarios \cup FailedScenarios \cup MalformedScenarios

\* values of Math.random()
RandomDraws == {Zero, D(5, -1), D(9999, -4)}

Resolved(path, list) == [t |-> "resolved", path |-> path, list |-> list]

\* the catch block
ReturnMock ==
  /\ \E random \in RandomDraws :
       fetchResult' = Resolved("mock", generateMockAsteroids(random))
  /\ fetchPc' = "done"
  /\ UNCHANGED <<scenario, asteroids, tasks, detailRequests>>

\* the call runs up to the first await
FetchStarts ==
  /\ fetchPc = "idle"
  /\ fetchPc' = "awaitFeed"
  /\ UNCHANGED <<scenario, asteroids, tasks, detailRequests, fetchResult>>

CallFetchNearEarthAsteroids ==
  /\ FetchStarts
  /\ UNCHANGED <<geoVars, densVars, impVars, pageVars>>

\* the feed request settles
FeedFetchSettles ==
  /\ fetchPc = "awaitFeed"
  /\ IF scenario.feed \in {"reject", "notok"} THEN ReturnMock
     ELSE /\ fetchPc' = "awaitJson"
          /\ UNCHANGED <<scenario, asteroids, tasks, detailRequests, fetchResult>>
  /\ UNCHANGED <<geoVars, densVars, impVars, pageVars>>

\* a variant in which only the first task has sent its request
FanOut_OneRequest(list, detailFetchCount) ==
  /\ asteroids' = list
  /\ tasks' = [i \in 1..detailFetchCount |-> "fetching"]
  /\ detailRequests' = [i \in 1..IMin(1, detailFetchCount) |-> list[i].id]
  /\ fetchPc' = "awaitAll"
  /\ UNCHANGED <<scenario, fetchResult>>

\* every task sends its request and waits
FanOut(list, detailFetchCount) ==
  /\ asteroids' = list
  /\ tasks' = [i \in 1..detailFetchCount |-> "fetching"]
  /\ detailRequests' = [i \in 1..detailFetchCount |-> list[i].id]
  /\ fetchPc' = "awaitAll"
  /\ UNCHANGED <<scenario, fetchResult>>

\* a variant that goes on with the records pushed before an exception
Normalized_KeepsPushed(outcomes) ==
  FanOut(AsteroidsOf(SelectSeq(outcomes, IsPushed)),
         IMin(Len(SelectSeq(outcomes, IsPushed)), DetailFetchCap))

Normalized(outcomes) ==
  IF \E i \in 1..Len(outcomes) : outcomes[i] = Thrown THEN ReturnMock
  ELSE FanOut(AsteroidsOf(SelectSeq(outcomes, IsPushed)),
              IMin(Len(SelectSeq(outcomes, IsPushed)), DetailFetchCap))

\* response.json() settles: normalization, then the detail tasks start
FeedJsonSettles ==
  /\ fetchPc = "awaitJson"
  /\ IF scenario.feed \in {"badjson", "nofield"} THEN ReturnMock
     ELSE Normalized(NormalizeAll(FeedRecords(scenario.near_earth_objects)))
  /\ UNCHANGED <<geoVars, densVars, impVars, pageVars>>

\* the order in which the model lets the answers arrive: the first FreeTasks
\* tasks at any time, the others one after the other
MaySettle(i) ==
  i <= FreeTasks \/ \A j \in (FreeTasks + 1)..(i - 1) : tasks[j] = "done"

TaskBecomes(i, state) ==
  /\ tasks' = [tasks EXCEPT ![i] = state]
  /\ UNCHANGED <<scenario, fetchPc, detailRequests, fetchResult>>

\* the detail request of task i settles
TaskFetchSettles(i) ==
  /\ tasks[i] = "fetching"
  /\ MaySettle(i)
  /\ TaskBecomes(i, IF scenario.details[i].fetch = "ok" THEN "parsing" ELSE "done")
  /\ UNCHANGED asteroids
  /\ UNCHANGED <<geoVars, densVars, impVars, pageVars>>

\* computeOrbitalGeometry of the elements and velocities that occur, computed once
GeometryOfDetail ==
  [orbital_data \in {answer.json.orbital_data : answer \in DetailElements},
   velocity_kms \in FeedVelocities |-> computeOrbitalGeometry(orbital_data, velocity_kms)]

\* a variant in which every task writes into the first asteroid
Enrich_FirstSlot(i, geometry) ==
  asteroids' = IF geometry = Null THEN asteroids
               ELSE [asteroids EXCEPT ![1] = WithGeometry(@, geometry)]

Enrich(i, geometry) ==
  asteroids' = IF geometry = Null THEN asteroids
               ELSE [asteroids EXCEPT ![i] = WithGeometry(@, geometry)]

\* detailResponse.json() of task i settles
TaskJsonSettles(i) ==
  /\ tasks[i] = "parsing"
  /\ MaySettle(i)
  /\ TaskBecomes(i, "done")
  /\ IF scenario.details[i].json = JsonRejects THEN UNCHANGED asteroids
     ELSE Enrich(i, GeometryOfDetail[scenario.details[i].json.orbital_data,
                                     asteroids[i].velocity_kms])
  /\ UNCHANGED <<geoVars, densVars, impVars, pageVars>>

Returned(list) ==
  /\ asteroids' = list
  /\ fetchResult' = Resolved("live", Slice(list, ResultCap))

\* a variant that is fulfilled as soon as the first promise is
PromiseAll_First(promises) == IF Len(promises) = 0 THEN TRUE ELSE promises[1] = "done"

\* Promise.all(detailPromises) is fulfilled: no task rejects, each one catches
PromiseAll(promises) == \A i \in 1..Len(promises) : promises[i] = "done"

\* Promise.all settles: the defaults, then the return
AllSettled ==
  /\ fetchPc = "awaitAll"
  /\ PromiseAll(tasks)
  /\ Returned(AllWithDefaults(asteroids))
  /\ fetchPc' = "done"
  /\ UNCHANGED <<scenario, tasks, detailRequests>>
  /\ UNCHANGED <<geoVars, densVars, impVars, pageVars>>

FetchInit ==
  /\ scenario \in Scenarios
  /\ fetchPc = "idle"
  /\ asteroids = << >>
  /\ tasks = << >>
  /\ detailRequests = << >>
  /\ fetchResult = NotCalled
  /\ GeomIdle
  /\ Headless
  /\ ModuleEvaluated
  /\ ImpactIdle
  /\ PageIdle

FetchNext ==
  \/ CallFetchNearEarthAsteroids
  \/ FeedFetchSettles
  \/ FeedJsonSettles
  \/ \E i \in 1..Len(tasks) : TaskFetchSettles(i)
  \/ \E i \in 1..Len(tasks) : TaskJsonSettles(i)
  \/ AllSettled

SpecFetch == FetchInit /\ [][FetchNext]_vars

-----------------------------------------------------------------------------
(* Calls of calculateImpactEffects *)

ImpactAsteroid(diameter_km, velocity_kmh) ==
  Asteroid("3542519", Num(diameter_km), Num(velocity_kmh),
           Num(Div(velocity_kmh, D(3600, 0))), Num(D(7500000, 0)))

ImpactAsteroids ==
  {ImpactAsteroid(d, v) :
     d \in {D(1, -2), D(5, -1), D(51, -2), One, D(30, 0), D(100, 0), D(1, 200)},
     v \in {Zero, D(60000, 0), D(250000, 0)}}

Target(lat, lng) == [t |-> "object", lat |-> Num(lat), lng |-> Num(lng)]

TargetLocations ==
  {Undefined, Target(D(2861, -2), D(7721, -2)), Target(Zero, D(-160, 0)),
   Target(PosInf, Zero), Target(D(1, 308), Zero)}

ImpactImages ==
  {[width |-> 1672, height |-> 1167, shift |-> 0],
   [width |-> 800, height |-> 600, shift |-> 3]}

ImpactInit ==
  /\ hasWindow \in BOOLEAN
  /\ hasDocument \in BOOLEAN
  /\ image \in ImpactImages
  /\ ModuleEvaluated
  /\ ImpactIdle
  /\ GeomIdle
  /\ FetchIdle
  /\ PageIdle

\* a call of calculateImpactEffects that returns r.effects
ImpactReturns(asteroid, targetLocation, r) ==
  /\ impIn' = [asteroid |-> asteroid, targetLocation |-> targetLocation]
  /\ impOut' = r.effects
  /\ EstimateReturns(<<OptionalField(targetLocation, "lat"),
                       OptionalField(targetLocation, "lng")>>, r.estimate)

CallCalculateImpactEffects ==
  /\ impOut = NotCalled
  /\ \E asteroid \in ImpactAsteroids, targetLocation \in TargetLocations :
       ImpactReturns(asteroid, targetLocation,
                     calculateImpactEffects(asteroid, targetLocation))
  /\ UNCHANGED <<geoVars, fetchVars, pageVars>>

ImpactNext == MapLoaded \/ MapFailed \/ CallCalculateImpactEffects

SpecImpact == ImpactInit /\ [][ImpactNext]_vars

-----------------------------------------------------------------------------
(* The Index page and its SimulationModal *)

\* Of the state of Index, hoveredAsteroid, mousePosition and the search form
\* are left out: no handler below reads them.

MathCeil(x) == Neg(MathFloor(Neg(x)))

\* Math.min(...values) and Math.max(...values) of a list that is not empty,
\* here of its entries from lo to hi
RECURSIVE MinOfList(_, _, _)
MinOfList(values, lo, hi) ==
  IF lo = hi THEN values[lo]
  ELSE LET left == MinOfList(values, lo, (lo + hi) \div 2)
           right == MinOfList(values, (lo + hi) \div 2 + 1, hi)
       IN MathMin(left, right)

RECURSIVE MaxOfList(_, _, _)
MaxOfList(values, lo, hi) ==
  IF lo = hi THEN values[lo]
  ELSE LET left == MaxOfList(values, lo, (lo + hi) \div 2)
           right == MaxOfList(values, (lo + hi) \div 2 + 1, hi)
       IN MathMax(left, right)

SmallestOf(values) == MinOfList(values, 1, Len(values))
LargestOf(values) == MaxOfList(values, 1, Len(values))

Sizes(list) == [i \in 1..Len(list) |-> list[i].diameter_km.n]
Velocities(list) == [i \in 1..Len(list) |-> list[i].velocity_kmh.n]

Thousand == D(1000, 0)

diameterRange(list) ==
  IF Len(list) = 0 THEN <<Zero, D(10, 0)>>
  ELSE <<Div(MathFloor(Mul(SmallestOf(Sizes(list)), Thousand)), Thousand),
         Div(MathCeil(Mul(LargestOf(Sizes(list)), Thousand)), Thousand)>>

velocityRange(list) ==
  IF Len(list) = 0 THEN <<Zero, D(100000, 0)>>
  ELSE <<MathFloor(SmallestOf(Velocities(list))), MathCeil(LargestOf(Velocities(list)))>>

Filters(sizeRange, velocityRange_) == [sizeRange |-> sizeRange, velocityRange |-> velocityRange_]

Within(x, range) == Ge(x, range[1]) /\ Le(x, range[2])

Passes(asteroid, f) ==
  Within(asteroid.diameter_km.n, f.sizeRange) /\ Within(asteroid.velocity_kmh.n, f.velocityRange)

filteredAsteroids(list, f) == SelectSeq(list, LAMBDA asteroid : Passes(asteroid, f))

\* the effect of [asteroids, diameterRange, velocityRange]: the filters follow
\* the ranges of the list
SyncedFilters(list, prev) ==
  IF Len(list) = 0 THEN prev ELSE Filters(diameterRange(list), velocityRange(list))

Shown(list, f, asteroid) ==
  \E i \in 1..Len(list) : Passes(list[i], f) /\ list[i].id = asteroid.id

\* the state after the render that follows setFilters(f),
\* setSelectedAsteroid(selected) and setIsSimulationOpen(open), and after the
\* effect of [filteredAsteroids, hoveredAsteroid, selectedAsteroid], which
\* deselects an asteroid that is filtered out
Rendered(list, f, selected, open) ==
  /\ filters' = f
  /\ IF selected # Null /\ ~Shown(list, f, selected)
       THEN selectedAsteroid' = Null /\ isSimulationOpen' = FALSE
       ELSE selectedAsteroid' = selected /\ isSimulationOpen' = open

Toast(kind, message) == [kind |-> kind, message |-> message]

Loaded(count) == Toast("success", "Loaded " \o ToString(count) \o " near-Earth asteroids")
Failed == Toast("error", "Failed to load asteroid data")

OutsidePage == <<geoVars, densVars, impVars>>

\* the effect of mount: loadAsteroids up to its await
loadAsteroids ==
  /\ pagePc = "mounted"
  /\ pagePc' = "awaitFetch"
  /\ loading' = TRUE
  /\ FetchStarts
  /\ UNCHANGED <<indexAsteroids, toasts, filters, selectedAsteroid, isSimulationOpen, modalVars>>
  /\ UNCHANGED OutsidePage

\* toast.success of the try block
Announced(data) == toasts' = Append(toasts, Loaded(Len(data)))

\* the promise of fetchNearEarthAsteroids has settled: the rest of the try
\* block or the catch block, then the finally block
LoadAsteroidsResumes ==
  /\ pagePc = "awaitFetch"
  /\ fetchPc = "done"
  /\ pagePc' = "settled"
  /\ IF fetchResult.t = "resolved"
       THEN /\ indexAsteroids' = fetchResult.list
            /\ Announced(fetchResult.list)
            /\ Rendered(fetchResult.list, SyncedFilters(fetchResult.list, filters),
                        selectedAsteroid, isSimulationOpen)
       ELSE /\ toasts' = Append(toasts, Failed)
            /\ UNCHANGED <<indexAsteroids, filters, selectedAsteroid, isSimulationOpen>>
  /\ loading' = FALSE
  /\ UNCHANGED modalVars
  /\ UNCHANGED <<fetchVars, OutsidePage>>

\* the handlers run on a mounted page; they leave the load and the adapter alone
Handled == UNCHANGED <<loadVars, fetchVars, OutsidePage>>

\* the asteroids a handler is tried with
MaxPicked == 2
Picked(list) == {list[i] : i \in 1..IMin(Len(list), MaxPicked)}

\* AsteroidScene, rendered once loading is false, reports a click on one of
\* the asteroids it was given
handleAsteroidClick(asteroid) ==
  /\ ~loading
  /\ Rendered(indexAsteroids, filters, asteroid, TRUE)
  /\ UNCHANGED modalVars
  /\ Handled

Widened(range, x) == <<MathMin(range[1], x), MathMax(range[2], x)>>

handleSearchSelect(asteroid) ==
  /\ Rendered(indexAsteroids,
              Filters(Widened(filters.sizeRange, asteroid.diameter_km.n),
                      Widened(filters.velocityRange, asteroid.velocity_kmh.n)),
              asteroid, TRUE)
  /\ UNCHANGED modalVars
  /\ Handled

\* the positions of the two thumbs of a slider tried: each at an end
SliderValues(min, max) == {<<min, min>>, <<min, max>>, <<max, max>>}

SizeSlider ==
  SliderValues(diameterRange(indexAsteroids)[1],
               MathMax(diameterRange(indexAsteroids)[2],
                       Add(diameterRange(indexAsteroids)[1], D(1, -2))))

VelocitySlider ==
  SliderValues(velocityRange(indexAsteroids)[1],
               MathMax(velocityRange(indexAsteroids)[2],
                       Add(velocityRange(indexAsteroids)[1], D(100, 0))))

\* onValueChange of the two sliders
SizeRangeChanged(value) ==
  /\ Rendered(indexAsteroids, [filters EXCEPT !.sizeRange = value],
              selectedAsteroid, isSimulationOpen)
  /\ UNCHANGED modalVars
  /\ Handled

VelocityRangeChanged(value) ==
  /\ Rendered(indexAsteroids, [filters EXCEPT !.velocityRange = value],
              selectedAsteroid, isSimulationOpen)
  /\ UNCHANGED modalVars
  /\ Handled

resetFilters ==
  /\ Rendered(indexAsteroids,
              Filters(diameterRange(indexAsteroids), velocityRange(indexAsteroids)),
              selectedAsteroid, isSimulationOpen)
  /\ UNCHANGED modalVars
  /\ Handled

\* what SimulationModal renders
ModalShows ==
  IF selectedAsteroid = Null THEN "nothing"
  ELSE IF simulationPhase = "targeting" THEN "TargetingMap"
  ELSE IF simulationPhase = "impact" /\ modalTargetLocation # Null THEN "ImpactRadar"
  ELSE IF isSimulationOpen THEN "Dialog"
  ELSE "nothing"

\* the button of the dialog
handleLaunch ==
  /\ ModalShows = "Dialog"
  /\ simulationPhase' = "targeting"
  /\ UNCHANGED <<modalTargetLocation, filters, selectedAsteroid, isSimulationOpen>>
  /\ Handled

\* the places confirmed on the targeting map
MapTargets == {Target(D(2861, -2), D(7721, -2)), Target(Zero, D(-160, 0))}

handleTargetSelected(location) ==
  /\ ModalShows = "TargetingMap"
  /\ modalTargetLocation' = location
  /\ simulationPhase' = "impact"
  /\ UNCHANGED <<filters, selectedAsteroid, isSimulationOpen>>
  /\ Handled

\* onClose as Index passes it
onClose == Rendered(indexAsteroids, filters, selectedAsteroid, FALSE)

\* onCancel of the targeting map and onClose of the impact radar
handleClose ==
  /\ ModalShows \in {"TargetingMap", "ImpactRadar"}
  /\ simulationPhase' = "preview"
  /\ modalTargetLocation' = Null
  /\ onClose
  /\ Handled

\* onOpenChange of the dialog
DialogDismissed ==
  /\ ModalShows = "Dialog"
  /\ onClose
  /\ UNCHANGED modalVars
  /\ Handled

\* the feeds the page is loaded with: the failures, and two live records
PageScenarios ==
  FailedScenarios \cup
    {Scenario("ok", FeedOfKinds(<<"full", "full">>),
              <<DetailObject(Str(<<"4", "5">>)), Answer("notok", Undefined)>>),
     Scenario("ok", FeedOfKinds(<<"full", "nokps">>),
              <<Answer("reject", Undefined), Answer("ok", JsonRejects)>>)}

PageInit ==
  /\ scenario \in PageScenarios
  /\ fetchPc = "idle"
  /\ asteroids = << >>
  /\ tasks = << >>
  /\ detailRequests = << >>
  /\ fetchResult = NotCalled
  /\ pagePc = "mounted"
  /\ FirstRender
  /\ GeomIdle
  /\ Headless
  /\ ModuleEvaluated
  /\ ImpactIdle

PageNext ==
  \/ loadAsteroids
  \/ FeedFetchSettles
  \/ FeedJsonSettles
  \/ \E i \in 1..Len(tasks) : TaskFetchSettles(i)
  \/ \E i \in 1..Len(tasks) : TaskJsonSettles(i)
  \/ AllSettled
  \/ LoadAsteroidsResumes
  \/ \E asteroid \in Picked(filteredAsteroids(indexAsteroids, filters)) :
       handleAsteroidClick(asteroid)
  \/ \E asteroid \in Picked(indexAsteroids) : handleSearchSelect(asteroid)
  \/ \E value \in SizeSlider : SizeRangeChanged(value)
  \/ \E value \in VelocitySlider : VelocityRangeChanged(value)
  \/ resetFilters
  \/ handleLaunch
  \/ \E location \in MapTargets : handleTargetSelected(location)
  \/ handleClose
  \/ DialogDismissed

SpecPage == PageInit /\ [][PageNext]_vars
-----------------------------------------------------------------------------
(* Claims about fetchNearEarthAsteroids, checked under SpecFetch *)

\* C1: when the feed request rejects or its response is not ok, the promise
\* of fetchNearEarthAsteroids resolves, and it resolves with exactly 50
\* asteroids whose ids are mock-0 .. mock-49.
C1_FeedFailureGivesMock ==
  (scenario.feed \in {"reject", "notok"} /\ fetchPc = "done") =>
    /\ fetchResult.t = "resolved"
    /\ Len(fetchResult.list) = 50
    /\ \A i \in 0..49 : fetchResult.list[i + 1].id = "mock-" \o ToString(i)

C1_Witness ==
  /\ scenario.feed = "notok"
  /\ fetchPc = "done"
  /\ fetchResult.t = "resolved"
  /\ fetchResult.list[50].id = "mock-49"

\* an enrichment that fails: the request rejects, the response is not ok or
\* is not JSON, or the elements are missing or one does not parse to a finite
\* number
EnrichmentFailed(answer) ==
  \/ answer.fetch # "ok"
  \/ answer.json = JsonRejects
  \/ answer.json.orbital_data = Undefined
  \/ \E f \in ElementNames : answer.json.orbital_data[f] \in NonFiniteInputs

HasDefaults(asteroid) ==
  /\ asteroid.impact_angle_deg = Num(D(45, 0))
  /\ asteroid.impact_azimuth_deg = Num(Zero)
  /\ asteroid.orbit_p_vector = Undefined
  /\ asteroid.orbit_q_vector = Undefined

KeepsGeometry(asteroid, geometry) ==
  /\ geometry # Null
  /\ asteroid.orbit_p_vector = Arr(geometry.p)
  /\ asteroid.orbit_q_vector = Arr(geometry.q)
  /\ asteroid.orbital_inclination_deg = Num(geometry.inclinationDeg)
  /\ asteroid.orbital_eccentricity = Num(geometry.eccentricity)
  /\ asteroid.semi_major_axis_au = Num(geometry.semiMajorAu)
  /\ asteroid.true_anomaly_rad = Num(geometry.trueAnomalyRad)
  /\ asteroid.impact_angle_deg = Num(geometry.impactAngleDeg)
  /\ asteroid.impact_azimuth_deg = Num(geometry.impactAzimuthDeg)

\* every record of the feed has the objects normalization reads: none throws
NoRecordThrows ==
  \A date \in 1..Len(scenario.near_earth_objects) :
    \A i \in 1..Len(scenario.near_earth_objects[date]) :
      /\ scenario.near_earth_objects[date][i].close_approach_data # Undefined
      /\ scenario.near_earth_objects[date][i].estimated_diameter # Undefined

\* C2: whichever enrichment requests fail, a call whose feed was read and normalized
\* resolves with the live list; an asteroid whose enrichment failed ends with
\* impact angle 45, impact azimuth 0 and no orbit vectors, and one whose
\* enrichment succeeded carries the geometry computed from its elements.
C2_PartialEnrichmentKeepsLiveList ==
  (scenario.feed = "ok" /\ NoRecordThrows /\ fetchPc = "done") =>
    /\ fetchResult.t = "resolved"
    /\ fetchResult.path = "live"
    /\ \A i \in 1..Len(scenario.details) :
         IF EnrichmentFailed(scenario.details[i])
           THEN HasDefaults(fetchResult.list[i])
           ELSE KeepsGeometry(fetchResult.list[i],
                  computeOrbitalGeometry(scenario.details[i].json.orbital_data,
                                         fetchResult.list[i].velocity_kms))

C2_Witness ==
  /\ scenario.feed = "ok"
  /\ fetchPc = "done"
  /\ fetchResult.path = "live"
  /\ Len(scenario.details) = DetailFetchCap
  /\ scenario.details[3].fetch = "reject"
  /\ ~EnrichmentFailed(scenario.details[4])
  /\ HasDefaults(fetchResult.list[3])
  /\ fetchResult.list[4].orbit_p_vector # Undefined

\* the ids of the records of the feed that have a close approach, in feed order
HasApproach(neo) == Len(neo.close_approach_data.items) > 0

NormalizedIds(near_earth_objects) ==
  [i \in 1..Len(SelectSeq(FeedRecords(near_earth_objects), HasApproach)) |->
     SelectSeq(FeedRecords(near_earth_objects), HasApproach)[i].id]

ResultIds == [i \in 1..Len(fetchResult.list) |-> fetchResult.list[i].id]

\* C8: the list resolved never has more than 100 entries, and on the live
\* path it is the first min(n, 100) normalized records in feed order.
C8_AtMostHundredInFeedOrder ==
  fetchResult # NotCalled =>
    /\ Len(fetchResult.list) <= 100
    /\ fetchResult.path = "live" =>
         /\ ResultIds = SubSeq(NormalizedIds(scenario.near_earth_objects), 1,
                               IMin(Len(NormalizedIds(scenario.near_earth_objects)), 100))
         /\ \A i \in 1..Len(fetchResult.list) : fetchResult.list[i] = asteroids[i]

C8_Witness ==
  /\ fetchResult # NotCalled
  /\ fetchResult.path = "live"
  /\ Len(asteroids) > 100
  /\ Len(fetchResult.list) = 100
  /\ fetchResult.list[100].id = "100"

IdsWithoutApproach(records) ==
  {records[i].id : i \in {j \in 1..Len(records) : ~HasApproach(records[j])}}

EmptyApproachIds == IdsWithoutApproach(FeedRecords(scenario.near_earth_objects))

IdsOf(list) == {list[i].id : i \in 1..Len(list)}

HasEmptyApproachRecord == EmptyApproachIds # {}

\* C9 (as claimed): a record whose close-approach list is empty is left out of
\* the result, the call still resolves with the live list, and every other
\* record of the feed is returned.
C9_EmptyApproachSkipped_AsClaimed ==
  (scenario.feed = "ok" /\ NoRecordThrows /\ fetchPc = "done" /\ HasEmptyApproachRecord) =>
    /\ fetchResult.path = "live"
    /\ IdsOf(fetchResult.list) \cap EmptyApproachIds = {}
    /\ \A i \in 1..Len(NormalizedIds(scenario.near_earth_objects)) :
         NormalizedIds(scenario.near_earth_objects)[i] \in IdsOf(fetchResult.list)

\* C9 (amended): a record whose close-approach list is empty is left out of
\* the result, the call still resolves with the live list, every other record
\* of the feed is normalized, and it is returned when it is among the first
\* 100 normalized records.
C9_EmptyApproachSkipped ==
  (scenario.feed = "ok" /\ NoRecordThrows /\ fetchPc = "done" /\ HasEmptyApproachRecord) =>
    /\ fetchResult.path = "live"
    /\ IdsOf(fetchResult.list) \cap EmptyApproachIds = {}
    /\ \A i \in 1..Len(NormalizedIds(scenario.near_earth_objects)) :
         /\ NormalizedIds(scenario.near_earth_objects)[i] \in IdsOf(asteroids)
         /\ i <= 100 => NormalizedIds(scenario.near_earth_objects)[i] \in IdsOf(fetchResult.list)

C9_Witness ==
  /\ scenario.feed = "ok"
  /\ NoRecordThrows
  /\ fetchPc = "done"
  /\ HasEmptyApproachRecord
  /\ fetchResult.path = "live"
  /\ Len(fetchResult.list) = 100
  /\ Len(asteroids) = 101

-----------------------------------------------------------------------------
(* Claims about computeOrbitalGeometry, checked under SpecGeom *)

\* C3: computeOrbitalGeometry returns null whenever the record of elements
\* is absent or one of the six elements does not parse to a finite number.
C3_NullOnMissingOrNonFinite ==
  (geoOut # NotCalled /\
     (\/ geoIn.orbitalData.t # "object"
      \/ \E f \in ElementNames : geoIn.orbitalData[f] \in NonFiniteInputs)) =>
    geoOut = Null

C3_Witness ==
  /\ geoOut = Null
  /\ geoIn.orbitalData.t = "object"
  /\ geoIn.orbitalData.semi_major_axis = Str(<< >>)
  /\ geoIn.orbitalData.eccentricity = Str(<<"0", ".", "5">>)
  /\ geoIn.relativeVelocityKms = Num(D(20, 0))

GeomFields(g) ==
  <<g.p[1], g.p[2], g.p[3], g.q[1], g.q[2], g.q[3], g.eccentricity, g.inclinationDeg,
    g.semiMajorAu, g.trueAnomalyRad, g.impactAngleDeg, g.impactAzimuthDeg>>

\* C4 (as claimed): every geometry returned has its impact angle in [5, 90]
\* and its impact azimuth in [0, 360).
C4_AngleAndAzimuthInRange ==
  geoOut.t = "geometry" =>
    /\ Le(D(5, 0), geoOut.impactAngleDeg) /\ Le(geoOut.impactAngleDeg, D(90, 0))
    /\ Le(Zero, geoOut.impactAzimuthDeg) /\ Lt(geoOut.impactAzimuthDeg, D(360, 0))

\* a geometry returned for eccentricity -1 and mean anomaly 180
C4_Witness ==
  /\ geoOut.t = "geometry"
  /\ geoIn.orbitalData.eccentricity = Str(<<"-", "1">>)
  /\ geoIn.orbitalData.mean_anomaly = Str(<<"1", "8", "0">>)
  /\ IsNaN(geoOut.impactAzimuthDeg)

\* C5 (as claimed): every numeric field of a geometry returned is finite.
C5_NoNaNPropagated ==
  geoOut.t = "geometry" =>
    \A n \in 1..12 : IsFinite(GeomFields(geoOut)[n])

\* a geometry returned for eccentricity 1.5
C5_Witness ==
  /\ geoOut.t = "geometry"
  /\ geoIn.orbitalData.eccentricity = Str(<<"1", ".", "5">>)
  /\ IsNaN(geoOut.trueAnomalyRad)

Dot(a, b) == Add(Add(Mul(a[1], b[1]), Mul(a[2], b[2])), Mul(a[3], b[3]))

\* the tolerance of the comparisons, for arithmetic of four significant digits
Tolerance == D(5, -3)

Near(x, y) == Le(NAbs(Sub(x, y)), Tolerance)

\* a call with six finite elements and 0 <= e < 0.95
BoundOrbitCall ==
  /\ geoOut # NotCalled
  /\ geoIn.orbitalData \in ValidOrbitalInputs
  /\ Le(Zero, ParseFloat(geoIn.orbitalData.eccentricity))
  /\ Lt(ParseFloat(geoIn.orbitalData.eccentricity), D(95, -2))

\* C17: for six finite elements with 0 <= e < 0.95 computeOrbitalGeometry
\* returns a geometry, not null, whose basis vectors have |p| = 1, |q| = 1
\* and p . q = 0 within the tolerance.
C17_OrthonormalBasis ==
  BoundOrbitCall =>
    /\ geoOut.t = "geometry"
    /\ Near(MathSqrt(Dot(geoOut.p, geoOut.p)), One)
    /\ Near(MathSqrt(Dot(geoOut.q, geoOut.q)), One)
    /\ Near(Dot(geoOut.p, geoOut.q), Zero)

\* a geometry for e = 0.85 on an inclined, rotated orbit
C17_Witness ==
  /\ BoundOrbitCall
  /\ geoOut.t = "geometry"
  /\ geoIn.orbitalData.eccentricity = Str(<<".", "8", "5">>)
  /\ geoIn.orbitalData.inclination = Str(<<"1", "0", ".", "5">>)
  /\ geoIn.orbitalData.ascending_node_longitude = Str(<<"1", "2", "0">>)
  /\ geoIn.orbitalData.perihelion_argument = Str(<<"2", "5", "0">>)
  /\ ~NumEq(geoOut.p[1], Zero) /\ ~NumEq(geoOut.p[2], Zero) /\ ~NumEq(geoOut.p[3], Zero)

-----------------------------------------------------------------------------
(* Claims about estimatePopulationDensity, checked under SpecDensity *)

NotFiniteArgument(v) == v = Undefined \/ ~IsFinite(v.n)

\* C6 (as claimed): estimatePopulationDensity returns 120 whenever lat or
\* lng is undefined or is not a finite number, in every state of the map and
\* of the cache.
C6_DefaultForAbsentOrNonFinite ==
  (densOut # NotCalled /\ (NotFiniteArgument(densIn[1]) \/ NotFiniteArgument(densIn[2]))) =>
    densOut = Num(D(120, 0))

\* a call with lat = +Infinity that did not return 120
C6_Witness ==
  /\ densOut # NotCalled
  /\ densIn = <<Num(PosInf), Num(Zero)>>
  /\ densOut # Num(D(120, 0))

\* C7 (as claimed): for finite lat and lng the value returned by
\* estimatePopulationDensity lies in [0, 30000].
C7_DensityInRange ==
  (densOut # NotCalled /\ ~NotFiniteArgument(densIn[1]) /\ ~NotFiniteArgument(densIn[2])) =>
    (Le(Zero, densOut.n) /\ Le(densOut.n, D(30000, 0)))

\* a call with lat = 1e308 that returned NaN
C7_Witness ==
  /\ densOut # NotCalled
  /\ densIn = <<Num(D(1, 308)), Num(Zero)>>
  /\ IsNaN(densOut.n)

-----------------------------------------------------------------------------
(* Claims about calculateImpactEffects, checked under SpecImpact *)

OneKmAtSixtyThousand ==
  /\ impOut # NotCalled
  /\ impIn.asteroid.diameter_km = Num(One)
  /\ impIn.asteroid.velocity_kmh = Num(D(60000, 0))

\* C10 (as claimed): for diameter 1 km and velocity 60000 km/h the earthquake
\* magnitude reported is min(5 + log10(0.1389), 10), about 4.14, printed with
\* one decimal.
C10_Magnitude_AsClaimed ==
  OneKmAtSixtyThousand =>
    impOut.earthquake_magnitude =
      ToFixed(MathMin(Add(D(5, 0), MathLog10(D(1389, -4))), D(10, 0)), 1)

\* C10 (amended): for diameter 1 km and velocity 60000 km/h the earthquake
\* magnitude reported is min(5 + log10(max(1, 0.1389)), 10), that is 5,
\* printed with one decimal.
C10_Magnitude ==
  OneKmAtSixtyThousand =>
    /\ impOut.energy_megatons = "0.14"
    /\ impOut.earthquake_magnitude = "5.0"

C10_Witness ==
  /\ OneKmAtSixtyThousand
  /\ impOut.crater_diameter_km = "20.00"
  /\ impOut.earthquake_magnitude = "5.0"


\* the energy proxy of the call that was made
EnergyOfCall == ImpactEnergy(impIn.asteroid)

\* a call whose asteroid has a finite diameter > 0 and a velocity >= 0
FinitePositiveCall ==
  /\ impOut # NotCalled
  /\ IsFinite(impIn.asteroid.diameter_km.n)
  /\ Gt(impIn.asteroid.diameter_km.n, Zero)
  /\ Ge(impIn.asteroid.velocity_kmh.n, Zero)

Between(x, low, high) == Le(low, x) /\ Le(x, high)

\* C11 (as claimed): for every asteroid with a finite diameter > 0 and a
\* velocity >= 0 the earthquake magnitude lies in [5, 10] and the shockwave
\* decibels lie in [200, 250]; both are at their lower bound when the energy
\* proxy is at most 1 and at their cap when it is at least 10^5.
C11_MagnitudeAndDecibelsInRange ==
  FinitePositiveCall =>
    /\ impOut.earthquake_magnitude = ToFixed(EarthquakeMagnitude(EnergyOfCall), 1)
    /\ impOut.shockwave_decibels = ToFixed(ShockwaveDecibels(EnergyOfCall), 0)
    /\ Between(EarthquakeMagnitude(EnergyOfCall), D(5, 0), D(10, 0))
    /\ Between(ShockwaveDecibels(EnergyOfCall), D(200, 0), D(250, 0))
    /\ Le(EnergyOfCall, One) =>
         (impOut.earthquake_magnitude = "5.0" /\ impOut.shockwave_decibels = "200")
    /\ Ge(EnergyOfCall, D(1, 5)) =>
         (impOut.earthquake_magnitude = "10.0" /\ impOut.shockwave_decibels = "250")

\* a call with diameter 1e200 km at velocity 0, whose energy proxy is
\* 0.5 * Infinity * 0 = NaN
OverflowAtRest ==
  /\ impOut # NotCalled
  /\ impIn.asteroid.diameter_km = Num(D(1, 200))
  /\ impIn.asteroid.velocity_kmh = Num(Zero)

C11_Witness ==
  /\ OverflowAtRest
  /\ impOut.earthquake_magnitude = "NaN"
  /\ impOut.shockwave_decibels = "NaN"

\* the population density the call that was made worked with
DensityOfCall == PopulationDensityOf(densOut.n)

\* the tsunami height of line 935 as a number
TsunamiHeight(diameter_km) ==
  IF Gt(diameter_km, D(5, -1)) THEN Mul(diameter_km, D(10, 0)) ELSE Zero

NumericRadii(radii) ==
  <<radii.craterDiameter, radii.fireballRadius, radii.shockwaveRadius,
    radii.windBlastRadius, radii.earthquakeRadius>>

NumericCasualties(radii, areas, populationDensity) ==
  <<craterCasualties(areas, populationDensity), fireballDeaths(areas, populationDensity),
    fireball3rdBurns(areas, populationDensity), fireball2ndBurns(areas, populationDensity),
    shockwaveDeaths(areas, populationDensity), windBlastDeaths(areas, populationDensity),
    earthquakeDeaths(radii, populationDensity), exposedPopulation(areas, populationDensity)>>

NumericOfEnergy(energy) ==
  <<energy, EarthquakeMagnitude(energy), ShockwaveDecibels(energy), AverageYears(energy)>>

\* the numeric effects of an asteroid at a population density
NumericEffects(asteroid, populationDensity) ==
  NumericOfEnergy(ImpactEnergy(asteroid)) \o
  NumericRadii(RadiiOf(asteroid.diameter_km.n)) \o
  NumericCasualties(RadiiOf(asteroid.diameter_km.n), AreasOf(RadiiOf(asteroid.diameter_km.n)),
                    populationDensity) \o
  <<TsunamiHeight(asteroid.diameter_km.n)>>

AllLe(s1, s2) == \A i \in DOMAIN s1 : Le(s1[i], s2[i])

\* the asteroids of the same velocity that are no larger than the one of the call
NoLarger ==
  {a \in ImpactAsteroids :
     /\ a.velocity_kmh = impIn.asteroid.velocity_kmh
     /\ Le(a.diameter_km.n, impIn.asteroid.diameter_km.n)}

\* C12 (as claimed): for a fixed velocity and a fixed target every numeric
\* effect is non-decreasing in the diameter: the crater diameter is 20 d, the
\* fireball radius 5 d, the shockwave radius 50 d, and energy, radii,
\* casualty counts, magnitude, decibels, recurrence years and tsunami height
\* of a smaller diameter are at most those of a larger one.
C12_MonotoneInDiameter ==
  FinitePositiveCall =>
    /\ impOut.crater_diameter_km = ToFixed(Mul(impIn.asteroid.diameter_km.n, D(20, 0)), 2)
    /\ impOut.fireball_radius_km = ToFixed(Mul(impIn.asteroid.diameter_km.n, D(5, 0)), 2)
    /\ impOut.shockwave_radius_km = ToFixed(Mul(impIn.asteroid.diameter_km.n, D(50, 0)), 2)
    /\ impOut = EffectsWithDensity(impIn.asteroid, DensityOfCall)
    /\ \A a \in NoLarger :
         AllLe(NumericEffects(a, DensityOfCall), NumericEffects(impIn.asteroid, DensityOfCall))

\* a call with diameter 1e200 km at 60000 km/h over a populated target: the
\* zone areas are Infinity and their differences NaN
OverflowOverLand ==
  /\ impOut # NotCalled
  /\ impIn.asteroid.diameter_km = Num(D(1, 200))
  /\ impIn.asteroid.velocity_kmh = Num(D(60000, 0))
  /\ Gt(DensityOfCall, Zero)

C12_Witness ==
  /\ OverflowOverLand
  /\ impOut.shockwave_deaths = "NaN"
  /\ ImpactAsteroid(One, D(60000, 0)) \in NoLarger

\* a call with the given diameter
CallWithDiameter(diameter_km) ==
  impOut # NotCalled /\ impIn.asteroid.diameter_km = Num(diameter_km)

\* C13: tsunami_height_m is the string "0" for every diameter <= 0.5 km,
\* 0.5 itself included, and is ten times the diameter printed with one
\* decimal for every diameter > 0.5 km.
C13_TsunamiThreshold ==
  /\ (impOut # NotCalled /\ Le(impIn.asteroid.diameter_km.n, D(5, -1))) =>
       impOut.tsunami_height_m = "0"
  /\ (impOut # NotCalled /\ Gt(impIn.asteroid.diameter_km.n, D(5, -1))) =>
       impOut.tsunami_height_m = ToFixed(Mul(impIn.asteroid.diameter_km.n, D(10, 0)), 1)
  /\ CallWithDiameter(D(1, -2)) => impOut.tsunami_height_m = "0"
  /\ CallWithDiameter(D(51, -2)) => impOut.tsunami_height_m = "5.1"
  /\ CallWithDiameter(One) => impOut.tsunami_height_m = "10.0"
  /\ CallWithDiameter(D(30, 0)) => impOut.tsunami_height_m = "300.0"

\* a call with the diameter exactly at the threshold
C13_Witness ==
  /\ CallWithDiameter(D(5, -1))
  /\ impOut.tsunami_height_m = "0"
  /\ impOut.crater_diameter_km = "10.00"

\* C14 (as claimed): for every asteroid with a finite diameter > 0 and a
\* velocity >= 0, velocity 0 and arbitrarily small energies included,
\* average_occurrence_years is max(floor(E * 15000), 1000), a number that is
\* never below 1000.
C14_RecurrenceAtLeastThousand ==
  FinitePositiveCall =>
    /\ impOut.average_occurrence_years = ToLocaleString(AverageYears(EnergyOfCall))
    /\ Ge(AverageYears(EnergyOfCall), D(1000, 0))
    /\ Lt(Mul(EnergyOfCall, D(15000, 0)), D(1000, 0)) => impOut.average_occurrence_years = "1,000"

C14_Witness ==
  /\ OverflowAtRest
  /\ impOut.energy_megatons = "NaN"
  /\ impOut.average_occurrence_years = "NaN"

\* the eight estimates of the call that was made, before formatInteger
CountsOfCall ==
  NumericCasualties(RadiiOf(impIn.asteroid.diameter_km.n),
                    AreasOf(RadiiOf(impIn.asteroid.diameter_km.n)), DensityOfCall)

\* the eight counts as the call printed them, in the same order
PrintedCounts ==
  <<impOut.crater_casualties, impOut.fireball_deaths, impOut.fireball_3rd_degree_burns,
    impOut.fireball_2nd_degree_burns, impOut.shockwave_deaths, impOut.wind_deaths,
    impOut.earthquake_deaths, impOut.estimated_population_exposed>>

\* a finite whole number >= 0
NonNegativeInteger(x) == IsFinite(x) /\ Ge(x, Zero) /\ NumEq(MathFloor(x), x)

\* C15 (as claimed): every casualty and exposure count is a non-negative
\* integer for every diameter > 0, velocity >= 0 and density in [0, 30000];
\* a negative difference of zone areas gives 0.
C15_CountsAreNonNegativeIntegers ==
  (/\ impOut # NotCalled
   /\ Gt(impIn.asteroid.diameter_km.n, Zero)
   /\ Ge(impIn.asteroid.velocity_kmh.n, Zero)
   /\ Between(DensityOfCall, Zero, D(30000, 0))) =>
    /\ \A i \in 1..8 :
         /\ PrintedCounts[i] = formatInteger(CountsOfCall[i])
         /\ NonNegativeInteger(MathMax(Zero, MathRound(CountsOfCall[i])))
    /\ Lt(AreasOf(RadiiOf(impIn.asteroid.diameter_km.n)).fireballArea,
          AreasOf(RadiiOf(impIn.asteroid.diameter_km.n)).craterArea) =>
         impOut.fireball_deaths = "0"

C15_Witness ==
  /\ OverflowOverLand
  /\ impOut.crater_casualties = InfinitySign
  /\ impOut.fireball_deaths = "NaN"

\* the call of estimatePopulationDensity was made with the target's coordinates
EstimatedForTarget ==
  densIn = <<OptionalField(impIn.targetLocation, "lat"),
             OptionalField(impIn.targetLocation, "lng")>>

-----------------------------------------------------------------------------
(* Claims about the enrichment pass, checked under SpecFetch *)

ResolvedLive == fetchResult # NotCalled /\ fetchResult.path = "live"

\* C18: when the call has resolved on the live path every enrichment request
\* has settled, and from then on the asteroids returned stay as they were
\* returned, whatever the order in which the answers arrived.
C18_SettledBeforeResolve ==
  ResolvedLive =>
    /\ Len(tasks) = Len(detailRequests)
    /\ \A i \in 1..Len(tasks) : tasks[i] = "done"
    /\ fetchResult.list = Slice(asteroids, ResultCap)

\* a resolved call in which the answer of the first task failed at the
\* request, that of the fourth one at the body, and the third one gave a geometry
C18_Witness ==
  /\ ResolvedLive
  /\ Len(tasks) = DetailFetchCap
  /\ scenario.details[1].fetch = "notok"
  /\ scenario.details[4] = Answer("ok", JsonRejects)
  /\ fetchResult.list[3].orbit_p_vector # Undefined
  /\ HasDefaults(fetchResult.list[1])
  /\ HasDefaults(fetchResult.list[4])

\* no orbital field of the asteroid has been written
NotEnriched(asteroid) ==
  /\ asteroid.orbital_inclination_deg = Undefined
  /\ asteroid.orbital_eccentricity = Undefined
  /\ asteroid.semi_major_axis_au = Undefined
  /\ asteroid.orbit_p_vector = Undefined
  /\ asteroid.orbit_q_vector = Undefined
  /\ asteroid.true_anomaly_rad = Undefined

\* the normalized asteroids exist: the call is past the normalization on the live path
PastNormalization == fetchPc = "awaitAll" \/ ResolvedLive

\* C19: on the live path exactly min(n, 40) enrichment requests are issued,
\* one for each of the first min(n, 40) normalized asteroids, all of them
\* before any answer is processed; the asteroids from position 40 on are
\* never enriched and are returned with impact angle 45 and azimuth 0.
C19_FanOutOfFirstForty ==
  /\ ~PastNormalization => (detailRequests = << >> /\ tasks = << >>)
  /\ PastNormalization =>
       /\ Len(asteroids) = Len(NormalizedIds(scenario.near_earth_objects))
       /\ Len(detailRequests) = IMin(Len(asteroids), 40)
       /\ Len(tasks) = Len(detailRequests)
       /\ \A i \in 1..Len(detailRequests) :
            detailRequests[i] = NormalizedIds(scenario.near_earth_objects)[i]
       /\ \A i \in 41..Len(asteroids) : NotEnriched(asteroids[i])
  /\ ResolvedLive =>
       \A i \in 41..Len(fetchResult.list) : HasDefaults(fetchResult.list[i])

\* a resolved call on a feed of 41 records: the fortieth has a geometry, the
\* forty-first has the defaults
C19_Witness ==
  /\ ResolvedLive
  /\ Len(fetchResult.list) = 41
  /\ Len(detailRequests) = 40
  /\ detailRequests[40] = fetchResult.list[40].id
  /\ ~NotEnriched(fetchResult.list[40])
  /\ NotEnriched(fetchResult.list[41])
  /\ HasDefaults(fetchResult.list[41])

OrbitalFields ==
  {"orbital_inclination_deg", "orbital_eccentricity", "semi_major_axis_au", "orbit_p_vector",
   "orbit_q_vector", "true_anomaly_rad", "impact_angle_deg", "impact_azimuth_deg"}

\* the geometries computeOrbitalGeometry gives for the answers and velocities that occur
GeometriesComputed ==
  {GeometryOfDetail[d] : d \in DOMAIN GeometryOfDetail} \ {Null}

\* no orbital field is present, or all eight are and come from one geometry
AllOrNothing(asteroid) ==
  (\E f \in OrbitalFields : asteroid[f] # Undefined) =>
    /\ \A f \in OrbitalFields : asteroid[f] # Undefined
    /\ \E geometry \in GeometriesComputed : KeepsGeometry(asteroid, geometry)

\* C20 (as claimed): in every asteroid returned, live or synthetic, and at
\* every point of the enrichment pass, the orbital fields are all-or-nothing:
\* if one of inclination, eccentricity, semi-major axis, p vector, q vector,
\* true anomaly, impact angle and impact azimuth is present, all of them are
\* and they come from one result of computeOrbitalGeometry.
C20_OrbitalFieldsAllOrNothing ==
  /\ \A i \in 1..Len(asteroids) : AllOrNothing(asteroids[i])
  /\ fetchResult # NotCalled =>
       \A i \in 1..Len(fetchResult.list) : AllOrNothing(fetchResult.list[i])

\* the synthetic catalogue: an impact angle and an azimuth without any other
\* orbital field
C20_Witness ==
  /\ fetchResult # NotCalled
  /\ fetchResult.path = "mock"
  /\ fetchResult.list[2].id = "mock-1"
  /\ fetchResult.list[2].impact_angle_deg = Num(D(45, 0))
  /\ fetchResult.list[2].impact_azimuth_deg = Num(D(30, 0))
  /\ NotEnriched(fetchResult.list[2])

-----------------------------------------------------------------------------
(* Claims about the density map and its cache, checked under SpecDensity *)

\* C21: whatever calls of estimatePopulationDensity follow the evaluation of
\* the module, at most one load of the density-map image is started: a call
\* made while the load is in flight, after it succeeded or after it failed
\* starts no other; without a document no load is ever started.
C21_AtMostOneImageLoad ==
  /\ imageLoads <= 1
  /\ ~hasDocument => (imageLoads = 0 /\ imageState = "none" /\ populationMapPromise = "null")
  /\ imageLoads = 1 <=> populationMapPromise # "null"
  /\ imageLoads = 0 <=> imageState = "none"

\* without a window the first call started the load; it succeeded, and two
\* later calls filled the cache without starting another
C21_Witness ==
  /\ hasDocument /\ ~hasWindow
  /\ imageState = "loaded"
  /\ populationMapContext = "ctx"
  /\ Cardinality(DOMAIN populationDensityCache) >= 2
  /\ imageLoads = 1

\* the last call had finite coordinates
FiniteCall ==
  /\ densOut # NotCalled
  /\ ~NotFiniteArgument(densIn[1])
  /\ ~NotFiniteArgument(densIn[2])

\* C22: as long as the density map has no image context (the load has not
\* started, is in flight, has failed or gave no context), a call with finite
\* coordinates returns estimatePopulationDensityFallback(lat, lng) and the
\* cache is empty: the cache is written only once the context exists.
C22_FallbackUntilLoaded ==
  populationMapContext = "null" =>
    /\ populationDensityCache = << >>
    /\ FiniteCall => densOut = Num(estimatePopulationDensityFallback(densIn[1].n, densIn[2].n))
    /\ (FiniteCall /\ densIn = <<Num(D(2861, -2)), Num(D(7721, -2))>>) =>
         ToFixed(densOut.n, 0) = "14190"

\* the load failed and a call for Delhi returned the value of the analytic model
C22_Witness ==
  /\ imageState = "error"
  /\ populationMapContext = "null"
  /\ FiniteCall
  /\ densIn = <<Num(D(2861, -2)), Num(D(7721, -2))>>
  /\ densOut = Num(FallbackOf[<<D(2861, -2), D(7721, -2)>>])
  /\ populationDensityCache = << >>

\* px or py of the coordinates is outside the loaded image
PixelOutside(lat, lng) ==
  \/ Lt(MathRound(MapX(lng)), Zero)
  \/ Lt(MathRound(MapY(lat)), Zero)
  \/ Ge(MathRound(MapX(lng)), Norm(populationMapWidth, 0))
  \/ Ge(MathRound(MapY(lat)), Norm(populationMapHeight, 0))

\* the last call was made with the map loaded, for a pixel outside the image
OutsideCall ==
  /\ FiniteCall
  /\ populationMapContext = "ctx"
  /\ IsFinite(MapX(densIn[2].n)) /\ IsFinite(MapY(densIn[1].n))
  /\ PixelOutside(densIn[1].n, densIn[2].n)

\* C23 (as claimed): with the map loaded, a coordinate whose pixel is outside
\* the image gets the value of the analytic model on every call, the first
\* and every later one.
C23_OutsideAlwaysFallsThrough ==
  OutsideCall => densOut = Num(FallbackOf[<<densIn[1].n, densIn[2].n>>])

\* a later call for Delhi one turn further east returned the cached 0, not
\* the 14180 of the analytic model
C23_Witness ==
  /\ OutsideCall
  /\ densIn = <<Num(D(2861, -2)), Num(D(4372, -1))>>
  /\ image.width = 1672
  /\ CacheKey(D(2861, -2), D(4372, -1)) \in DOMAIN populationDensityCache
  /\ populationDensityCache[CacheKey(D(2861, -2), D(4372, -1))] = Zero
  /\ densOut = Num(Zero)
  /\ ToFixed(FallbackOf[<<D(2861, -2), D(4372, -1)>>], 0) = "14180"

\* every entry of the cache is still there, with its value, after the step
EntriesKept ==
  \A k \in DOMAIN populationDensityCache :
    k \in DOMAIN populationDensityCache' /\ populationDensityCache'[k] = populationDensityCache[k]

\* the step is a call of estimatePopulationDensity with finite coordinates
\* whose key was in the cache when it was made
CachedLookupStep ==
  /\ densOut' # NotCalled
  /\ (densOut = NotCalled \/ densOut' # densOut \/ densIn' # densIn)
  /\ ~NotFiniteArgument(densIn'[1])
  /\ ~NotFiniteArgument(densIn'[2])
  /\ CacheKey(densIn'[1].n, densIn'[2].n) \in DOMAIN populationDensityCache

\* C24: the cache is write-once per key: an entry is never overwritten or
\* removed, and every later lookup that rounds to its key returns the value
\* cached.
C24_CacheWriteOnce ==
  [][/\ EntriesKept
     /\ CachedLookupStep =>
          densOut' = Num(populationDensityCache[CacheKey(densIn'[1].n, densIn'[2].n)])]_vars

\* a later lookup returned the cached 0 of a coordinate off the map, with
\* another entry in the cache
C24_Witness ==
  /\ FiniteCall
  /\ populationMapContext = "ctx"
  /\ Cardinality(DOMAIN populationDensityCache) >= 2
  /\ CacheKey(densIn[1].n, densIn[2].n) \in DOMAIN populationDensityCache
  /\ densOut = Num(populationDensityCache[CacheKey(densIn[1].n, densIn[2].n)])
  /\ densOut # Num(FallbackOf[<<densIn[1].n, densIn[2].n>>])
  /\ PixelOutside(densIn[1].n, densIn[2].n)

-----------------------------------------------------------------------------
(* Claims about the page, checked under SpecPage *)

PageTypeOK ==
  /\ pagePc \in {"mounted", "awaitFetch", "settled"}
  /\ loading \in BOOLEAN
  /\ isSimulationOpen \in BOOLEAN
  /\ simulationPhase \in {"preview", "targeting", "impact"}
  /\ Len(toasts) <= 1

\* the feed request itself fails: it rejects or answers with an error status
FeedRequestFailed == scenario.feed \in {"reject", "notok"}

LoadSettled == pagePc = "settled"

FallbackInstalled ==
  /\ fetchResult.path = "mock"
  /\ indexAsteroids = fetchResult.list
  /\ Len(indexAsteroids) = MockCount

\* C25: once loadAsteroids has run to its end after a feed request that
\* failed, the page holds the fallback catalog of 50 entries, loading is
\* false, and the one notification shown says that the load failed
C25_FailedLoadIsNotified ==
  (LoadSettled /\ FeedRequestFailed) =>
    /\ FallbackInstalled
    /\ loading = FALSE
    /\ toasts = <<Failed>>

\* the load has ended after a failed feed request: the fallback catalog is
\* installed, and the notification shown is the one of a successful load
C25_Witness ==
  /\ LoadSettled
  /\ FeedRequestFailed
  /\ FallbackInstalled
  /\ loading = FALSE
  /\ toasts = <<Loaded(MockCount)>>

-----------------------------------------------------------------------------
(* A claim about the Kepler solver, checked under SpecGeom *)

\* a call with six finite elements: the solver runs
SolverCall ==
  /\ geoOut # NotCalled
  /\ geoIn.orbitalData \in ValidOrbitalInputs

\* the arguments the solver is called with
SolverM == Mul(ParseFloat(geoIn.orbitalData.mean_anomaly), DEG2RAD)
SolverE == ParseFloat(geoIn.orbitalData.eccentricity)

\* n Newton-Raphson steps from E
RECURSIVE StepsFrom(_, _, _, _)
StepsFrom(E, M, e, n) == IF n = 0 THEN E ELSE StepsFrom(KeplerStep(E, M, e), M, e, n - 1)

\* C26: solveKeplerEquation returns the twelfth Newton-Raphson iterate from M
\* when e < 0.8 and from pi otherwise; for e = 0 a step from M gives M, the
\* result is exactly M, and the true anomaly returned is the one of E = M
C26_KeplerTwelveSteps ==
  SolverCall =>
    /\ solveKeplerEquation(SolverM, SolverE)
         = StepsFrom(IF Lt(SolverE, D(8, -1)) THEN SolverM ELSE MathPI, SolverM, SolverE, 12)
    /\ NumEq(SolverE, Zero) =>
         /\ KeplerStep(SolverM, SolverM, SolverE) = SolverM
         /\ solveKeplerEquation(SolverM, SolverE) = SolverM
         /\ geoOut.t = "geometry" =>
              geoOut.trueAnomalyRad = TrueAnomaly(Div(SolverM, Two), SolverE)

\* a circular orbit with a mean anomaly of 45 degrees: the geometry is returned
C26_Witness ==
  /\ SolverCall
  /\ geoIn.orbitalData.eccentricity = Str(<<"0">>)
  /\ geoIn.orbitalData.mean_anomaly = Str(<<"4", "5">>)
  /\ geoOut.t = "geometry"
  /\ geoOut.trueAnomalyRad = TrueAnomaly(Div(Mul(D(45, 0), DEG2RAD), Two), Zero)
  /\ ~NumEq(SolverM, Zero)

-----------------------------------------------------------------------------
(* A claim about the order of the enrichment answers, checked under SpecFetch *)

\* the asteroids of the feed right after normalization
NormalizedFeed ==
  AsteroidsOf(SelectSeq(NormalizeAll(FeedRecords(scenario.near_earth_objects)), IsPushed))

\* what the answer to the detail request of an asteroid makes of it
AfterAnswer(asteroid, answer) ==
  IF answer.fetch # "ok" \/ answer.json = JsonRejects THEN asteroid
  ELSE IF GeometryOfDetail[answer.json.orbital_data, asteroid.velocity_kms] = Null THEN asteroid
  ELSE WithGeometry(asteroid, GeometryOfDetail[answer.json.orbital_data, asteroid.velocity_kms])

\* asteroid i once its own task is done, whatever the other tasks did
OwnResult(base, i) ==
  IF i <= Len(scenario.details) THEN AfterAnswer(base[i], scenario.details[i]) ELSE base[i]

\* C27: during the enrichment pass asteroid i is the normalized record while
\* its own task runs and the result of its own answer once that task is done,
\* whatever the states of the other tasks; so the list resolved is a function
\* of the feed and of the answers alone, not of the order of their arrival
C27_ArrivalOrderIrrelevant ==
  PastNormalization =>
    LET base == NormalizedFeed
    IN /\ fetchPc = "awaitAll" =>
            /\ Len(asteroids) = Len(base)
            /\ \A i \in 1..Len(base) :
                 asteroids[i] = IF i <= Len(tasks) /\ tasks[i] = "done"
                                  THEN OwnResult(base, i) ELSE base[i]
       /\ ResolvedLive =>
            fetchResult.list
              = Slice([i \in 1..Len(base) |-> WithDefaults(OwnResult(base, i))], ResultCap)

\* the second answer was processed while the first request is still out: the
\* second asteroid is enriched and the first is as normalized
C27_Witness ==
  /\ fetchPc = "awaitAll"
  /\ Len(tasks) >= 2
  /\ tasks[1] = "fetching"
  /\ tasks[2] = "done"
  /\ ~EnrichmentFailed(scenario.details[1])
  /\ ~NotEnriched(asteroids[2])
  /\ NotEnriched(asteroids[1])
  /\ asteroids[1] = NormalizedFeed[1]

-----------------------------------------------------------------------------
(* A claim about malformed feeds, checked under SpecFetch *)

\* a record of the feed raises while it is normalized
SomeRecordThrows == scenario.feed = "ok" /\ ~NoRecordThrows

IsSynthetic(asteroid) == \E i \in 0..(MockCount - 1) : asteroid.id = "mock-" \o ToString(i)

FeedIds == {FeedRecords(scenario.near_earth_objects)[i].id :
              i \in 1..Len(FeedRecords(scenario.near_earth_objects))}

-----------------------------------------------------------------------------
(* A claim about the fireball deaths, checked under SpecImpact *)

\* the zone areas of the call that was made
AreasOfCall == AreasOf(RadiiOf(impIn.asteroid.diameter_km.n))

\* C29 (as claimed): for every diameter > 0 and every density the crater
\* radius exceeds the fireball radius, fireballArea - craterArea is not
\* positive and fireball_deaths is "0", while the area differences of the
\* shockwave and wind-blast deaths are strictly positive.
C29_FireballDeathsAlwaysZero ==
  (impOut # NotCalled /\ Gt(impIn.asteroid.diameter_km.n, Zero)) =>
    /\ Gt(Div(RadiiOf(impIn.asteroid.diameter_km.n).craterDiameter, Two),
          RadiiOf(impIn.asteroid.diameter_km.n).fireballRadius)
    /\ Le(Sub(AreasOfCall.fireballArea, AreasOfCall.craterArea), Zero)
    /\ impOut.fireball_deaths = "0"
    /\ Gt(Sub(AreasOfCall.shockwaveArea, AreasOfCall.fireballArea), Zero)
    /\ Gt(Sub(AreasOfCall.windBlastArea, AreasOfCall.fireballArea), Zero)

\* a diameter whose zone areas overflow: the difference of the two infinite
\* areas is NaN and so are the fireball deaths
C29_Witness ==
  /\ impOut # NotCalled
  /\ impIn.asteroid.diameter_km = Num(D(1, 200))
  /\ AreasOfCall.fireballArea = PosInf
  /\ AreasOfCall.craterArea = PosInf
  /\ IsNaN(Sub(AreasOfCall.fireballArea, AreasOfCall.craterArea))
  /\ impOut.fireball_deaths = "NaN"


-----------------------------------------------------------------------------
(* A claim about the simulation modal, checked under SpecPage *)

ModalAtRest == simulationPhase = "preview" /\ modalTargetLocation = Null

\* C30 (as claimed): whatever the order of clicks, search selections,
\* launches, target selections, closes and filter changes, the modal is at
\* phase 'preview' without a target whenever the simulation is not open or no
\* asteroid is selected, and it has a target whenever its phase is 'impact'.
C30_ModalAtRestWhenClosed ==
  /\ (~isSimulationOpen \/ selectedAsteroid = Null) => ModalAtRest
  /\ simulationPhase = "impact" => modalTargetLocation # Null

\* a filter change has deselected the asteroid while its impact was shown:
\* nothing is selected, the simulation is closed, and the modal still holds
\* the phase 'impact' and the target
C30_Witness ==
  /\ pagePc = "settled"
  /\ selectedAsteroid = Null
  /\ ~isSimulationOpen
  /\ simulationPhase = "impact"
  /\ modalTargetLocation # Null
  /\ filteredAsteroids(indexAsteroids, filters) = << >>

=============================================================================
